---- MODULE Spec2Model ----
(***************************************************************************)
(* The Sentry turret: SensorArray, SignalMonitor, PanController,           *)
(* TiltController, TrackingEngine and the main loop, as state machines     *)
(* over the firmware's own state.                                          *)
(*                                                                         *)
(* Numbers.  The firmware's floats are modelled as exact fixed-point       *)
(* integers: a normalised speed s is the integer 100*s (SpeedScale), an    *)
(* angle a in degrees is the integer 5000*a (PosScale).  With these scales *)
(* speed * PAN_DEG_PER_SEC * dt_ms / 1000 is an integer for every input,   *)
(* so the integration is exact.  NaN is not a value of the model: every    *)
(* speed is a finite number.  The unsigned counters keep their widths:     *)
(* millis() is 32 bits, lowRunMs 16 bits, the filter buffer 8 bits.        *)
(***************************************************************************)
EXTENDS Integers, Naturals, Sequences, FiniteSets, TLC

\* ------------------------------------------------------------------------
\* Fixed-point resolutions of the two float quantities
\* ------------------------------------------------------------------------
SpeedScale == 100
PosScale == 5000

\* ------------------------------------------------------------------------
\* config.h
\* ------------------------------------------------------------------------
SENSOR_FILTER_WINDOW == 8
SENSOR_FILTER_THRESHOLD == 6
SENSOR_SATURATED_MS == 2000
PAN_STOP_US == 1500
PAN_CW_FULL_US == 1300
PAN_CCW_FULL_US == 1700
PAN_LIMIT_DEG == 135
\* 0.15f, in hundredths
PAN_MIN_SPEED == 15
PAN_DEG_PER_SEC == 60
\* 0.30f, in hundredths
TRACK_PAN_SPEED_SLOW == 30
\* 0.80f, in hundredths
TRACK_PAN_SPEED_FAST == 80
SIGNAL_PRESENT_HOLDOFF_MS == 500
SIGNAL_LOSS_SEARCH_MS == 3000
SIGNAL_LOSS_PARK_MS == 15000
\* degrees
SEARCH_SWEEP_DEG == 90
\* 0.25f, in hundredths
SEARCH_SWEEP_SPEED == 25
LOOP_PERIOD_MS == 20
\* tilt angles and the tilt step, whole degrees
TILT_MIN_DEG == 0
TILT_MAX_DEG == 45
TILT_HOME_DEG == 0
TILT_SCAN_DEG == 20
TILT_STEP_DEG == 1
TILT_HOLDOFF_MS == 100
\* tracking_engine.h
APPROACH_MEMORY_MS == 400
\* parkHome's local constexpr, degrees
HOME_TOLERANCE == 5

\* PAN_LIMIT_DEG and HOME_TOLERANCE in position units
PanLimit == PAN_LIMIT_DEG * PosScale
HomeTol == HOME_TOLERANCE * PosScale

Abs(x) == IF x < 0 THEN -x ELSE x

VARIABLES
    pan,        \* PanController: [speed, pos, us]
    panOp,      \* the PanController call that returned last
    panArg,     \* its argument (speed or dt_ms), 0 when it has none
    panRet      \* parkHome's last return value

VARIABLES
    now,        \* millis(): a 32-bit unsigned long, as <<high half, low half>>
    monitor,    \* SignalMonitor: [state, prevState, lastSignalMs, lastBlinkMs,
                \*                 ledState, pin]
    monIn,      \* the argument of the last SignalMonitor::update call
    monPre,     \* the SignalMonitor as it was when that call was made
    monCalls,   \* number of update calls made so far
    ledCall,    \* the last updateStatusLED call: [calls, state, preState,
                \* prePin, toggled, sinceBlink, sinceChange, hadChange,
                \* changeMs]: the number of calls so far, the state it acted
                \* on and the state the call before it acted on ("none"
                \* for the first), the level before the call, whether it
                \* flipped ledState_, millis() - lastBlinkMs_ as the call
                \* saw it, the time since the level changed last before
                \* the call and whether a call had changed it at all, and
                \* the clock value of the last change of level
    reading     \* the SensorReading the loop took last: [top, bottom, left, right]

VARIABLES
    filters,    \* SensorArray::filters_: channel -> [buffer, index, lowRunMs,
                \*                                    saturated]
    raw,        \* the raw samples of the last update(): channel -> BOOLEAN
    window,     \* per channel, the raw samples pushed since init(), newest
                \* last, cut to the last SENSOR_FILTER_WINDOW
    rawRun,     \* per channel, the number of consecutive active raw samples
                \* ending at the last update(), counted up to SaturationTicks
    satPre,     \* per channel, the saturated flag as it was when the last
                \* update() was called
    direction,  \* what the last getDirection() call returned, "unset" before
                \* the first call
    config,     \* the filter configuration of the build: [window, threshold]
    phase       \* "boot" until SensorArray::init() has returned, then
                \* "running"

VARIABLES
    tilt,       \* TiltController: [angle, lastStepMs]
    tiltOp,     \* the TiltController call that returned last
    tiltArg,    \* its argument (degrees or delta), 0 when it has none
    tiltRet,    \* nudge's last return value
    tiltPre,    \* the TiltController as it was when that call was made
    tiltPrior,  \* what preceded that call: "nudge" when a nudge had been
                \* accepted and no setAngle had followed it, "setAngle" when
                \* a setAngle had, "init" when neither had been made
    tiltCalls   \* number of nudge calls made so far

VARIABLES
    tracker,    \* TrackingEngine: [lastLeftActiveMs, lastRightActiveMs]
    trkOp,      \* the TrackingEngine call that returned last
    trkCmd,     \* the speed the last TrackingEngine::update passed to setSpeed
    trkNudge,   \* what that update did with the tilt: "none", "accepted",
                \* "rejected"
    trkPre,     \* the TiltController as it was when that update was called
    trkEver,    \* per horizontal channel, whether it was ACTIVE in some
                \* update call since TrackingEngine::init and the clock value
                \* of the last such call: [left, leftMs, right, rightMs]
    trkCalls    \* number of TrackingEngine::update calls made so far

VARIABLES
    sweepDirectionCW,   \* main.cpp's static sweep direction
    calls,      \* the calls loop() made in its last iteration, in order
    panPre,     \* the PanController as it was when loop() last called
                \* updatePosition
    resetPre,   \* when loop() last called resetPosition: [ret, pos], the
                \* return value of the parkHome call before it and the
                \* position estimate it overwrote
    trueDeg,    \* the angle of an ideal actuator that turns by
                \* speed * PAN_DEG_PER_SEC * dt at every updatePosition, in
                \* position units; zeroed together with the estimate
    ticks,      \* number of loop() iterations made so far
    beacon      \* the beacon as the sensors see it: "seen" from power-up,
                \* then "lost", then "back"

panVars == <<pan, panOp, panArg, panRet>>
tiltVars == <<tilt, tiltOp, tiltArg, tiltRet, tiltPre, tiltPrior, tiltCalls>>
trkVars == <<tracker, trkOp, trkCmd, trkNudge, trkPre, trkEver, trkCalls>>
loopVars == <<sweepDirectionCW, calls, panPre, resetPre, trueDeg, ticks,
             beacon>>
monVars == <<now, monitor, monIn, monPre, monCalls, ledCall>>
senVars == <<filters, raw, window, rawRun, satPre, direction, config,
            phase>>

vars == <<pan, panOp, panArg, panRet, now, monitor, monIn, monPre, monCalls,
          ledCall, reading, filters, raw, window, rawRun, satPre, direction,
          config, phase,
          tilt, tiltOp, tiltArg, tiltRet, tiltPre, tiltPrior, tiltCalls,
          tracker, trkOp, trkCmd, trkNudge, trkPre, trkEver, trkCalls,
          sweepDirectionCW, calls, panPre, resetPre, trueDeg, ticks, beacon>>

\* ------------------------------------------------------------------------
\* PanController (pan_controller.cpp)
\* ------------------------------------------------------------------------

\* speedToMicroseconds: linear map  -1 -> CCW_FULL, 0 -> STOP, +1 -> CW_FULL
speedToMicroseconds(speed) ==
    IF speed >= 0
    THEN PAN_STOP_US - (speed * (PAN_STOP_US - PAN_CW_FULL_US)) \div SpeedScale
    ELSE PAN_STOP_US + ((-speed) * (PAN_CCW_FULL_US - PAN_STOP_US)) \div SpeedScale

\* setSpeed line 23-24: clamp the input to +-1.0
ClampUnit(speed) ==
    IF speed > SpeedScale THEN SpeedScale
    ELSE IF speed < -SpeedScale THEN -SpeedScale
    ELSE speed

\* mutant: the dead zone also swallows a command of exactly PAN_MIN_SPEED
DeadZone_Inclusive(speed) ==
    IF Abs(speed) <= PAN_MIN_SPEED THEN 0 ELSE speed

\* setSpeed line 27-29: dead zone
DeadZone(speed) ==
    IF Abs(speed) < PAN_MIN_SPEED THEN 0 ELSE speed

\* mutant: the limit test is strict, so a position exactly on the limit
\* still accepts an outward command
SoftLimit_Strict(pos, speed) ==
    LET s1 == IF pos > PanLimit /\ speed > 0 THEN 0 ELSE speed
    IN  IF pos < -PanLimit /\ s1 < 0 THEN 0 ELSE s1

\* mutant: only the upper limit refuses an outward command
SoftLimit_UpperOnly(pos, speed) ==
    IF pos >= PanLimit /\ speed > 0 THEN 0 ELSE speed

\* setSpeed line 33-34: software limit
SoftLimit(pos, speed) ==
    LET s1 == IF pos >= PanLimit /\ speed > 0 THEN 0 ELSE speed
    IN  IF pos <= -PanLimit /\ s1 < 0 THEN 0 ELSE s1

\* PanController::init
PanInitState == [speed |-> 0, pos |-> 0, us |-> PAN_STOP_US]

\* PanController::setSpeed
PanSetSpeed(p, v) ==
    LET speed == SoftLimit(p.pos, DeadZone(ClampUnit(v)))
    IN  [p EXCEPT !.speed = speed, !.us = speedToMicroseconds(speed)]

\* PanController::stop
PanStop(p) == [p EXCEPT !.speed = 0, !.us = PAN_STOP_US]

\* updatePosition line 51-52: hard clamp
ClampPos(pos) ==
    IF pos > PanLimit THEN PanLimit
    ELSE IF pos < -PanLimit THEN -PanLimit
    ELSE pos

\* position units travelled per millisecond at one hundredth of full speed:
\* PAN_DEG_PER_SEC degrees per 1000 ms, an exact integer (3) at these scales
PanRate == (PAN_DEG_PER_SEC * PosScale) \div (SpeedScale * 1000)

\* updatePosition line 47-48: speed * degPerSec * dt_sec, in position units
PanDelta(speed, dt) == speed * dt * PanRate

\* mutant: the clamp is applied before the integration instead of after it
PanUpdatePosition_ClampFirst(p, dt) ==
    [p EXCEPT !.pos = ClampPos(p.pos) + PanDelta(p.speed, dt)]

\* PanController::updatePosition
PanUpdatePosition(p, dt) ==
    [p EXCEPT !.pos = ClampPos(p.pos + PanDelta(p.speed, dt))]

\* mutant: home is reached only on the exact centre
PanParkHomeArrived_Exact(p) == p.pos = 0

\* PanController::parkHome, the return value
PanParkHomeArrived(p) == Abs(p.pos) < HomeTol

\* mutant: the homing command has the sign of the position
PanParkHome_AwayFromHome(p) ==
    IF PanParkHomeArrived(p)
    THEN PanStop(p)
    ELSE PanSetSpeed(p, IF p.pos > 0 THEN TRACK_PAN_SPEED_SLOW
                                      ELSE -TRACK_PAN_SPEED_SLOW)

\* PanController::parkHome, the new controller state
PanParkHome(p) ==
    IF PanParkHomeArrived(p)
    THEN PanStop(p)
    ELSE PanSetSpeed(p, IF p.pos > 0 THEN -TRACK_PAN_SPEED_SLOW
                                      ELSE TRACK_PAN_SPEED_SLOW)

\* PanController::resetPosition
PanResetPosition(p) == [p EXCEPT !.pos = 0]

\* ------------------------------------------------------------------------
\* unsigned long (32 bits on the ESP32), kept as two 16-bit halves
\* <<hi, lo>> so that the arithmetic modulo 2^32 is exact
\* ------------------------------------------------------------------------
Half == 65536

\* a + b modulo 2^32
U32Add(a, b) ==
    LET lo == a[2] + b[2]
    IN  <<(a[1] + b[1] + (lo \div Half)) % Half, lo % Half>>

\* a - b modulo 2^32 (unsigned subtraction, as in `now - lastSignalMs_`)
U32Sub(a, b) ==
    LET lo == a[2] - b[2]
        borrow == IF lo < 0 THEN 1 ELSE 0
    IN  <<(a[1] - b[1] - borrow + Half) % Half, (lo + Half) % Half>>

\* a < c for a uint16_t constant c
U32Less(a, c) == a[1] = 0 /\ a[2] < c

\* the unsigned long of a value below 2^16
U32(n) == <<0, n>>

\* ------------------------------------------------------------------------
\* SensorArray (sensor_array.cpp)
\* ------------------------------------------------------------------------

\* filters_ indices: [0]=top, [1]=bottom, [2]=left, [3]=right
Channels == 0..3

\* 2^n
RECURSIVE Pow2(_)
Pow2(n) == IF n = 0 THEN 1 ELSE 2 * Pow2(n - 1)

\* bit i of the byte b
Bit(b, i) == (b \div Pow2(i)) % 2

\* FilterState{}: the default member initialisers
FilterInit == [buffer |-> 0, index |-> 0, lowRunMs |-> 0, saturated |-> FALSE]

\* mutant: an inactive sample leaves the bit of its slot as it was
pushSample_NoClear(f, active) ==
    LET b == IF active /\ Bit(f.buffer, f.index) = 0
             THEN f.buffer + Pow2(f.index)
             ELSE f.buffer
    IN  [f EXCEPT !.buffer = b, !.index = (f.index + 1) % config.window]

\* SensorArray::pushSample; SENSOR_FILTER_WINDOW is config.window, the value
\* the build was made with
pushSample(f, active) ==
    LET b == IF active
             THEN IF Bit(f.buffer, f.index) = 1 THEN f.buffer
                  ELSE f.buffer + Pow2(f.index)
             ELSE IF Bit(f.buffer, f.index) = 1 THEN f.buffer - Pow2(f.index)
                  ELSE f.buffer
    IN  [f EXCEPT !.buffer = b, !.index = (f.index + 1) % config.window]

\* the loop of popcount: the number of set bits among the lowest n bits
RECURSIVE CountBits(_, _)
CountBits(bits, n) ==
    IF n = 0 THEN 0 ELSE (bits % 2) + CountBits(bits \div 2, n - 1)

\* mutant: the mask is one bit short, (1 << (WINDOW - 1)) - 1
popcount_ShortMask(bits) ==
    CountBits(bits % Pow2(config.window - 1), 8)

\* SensorArray::popcount: mask to the lower SENSOR_FILTER_WINDOW bits of the
\* uint8_t, then count
popcount(bits) ==
    CountBits(bits % Pow2(config.window), 8)

\* SensorArray::evaluateSensor
evaluateSensor(f) ==
    IF f.saturated THEN "SATURATED"
    ELSE IF popcount(f.buffer) >= config.threshold THEN "ACTIVE"
    ELSE "INACTIVE"

\* mutant: the flag is recomputed from the 16-bit counter on every tick
Saturation_Recomputed(f, active) ==
    IF active
    THEN LET run == (f.lowRunMs + LOOP_PERIOD_MS) % Half
         IN  [f EXCEPT !.lowRunMs = run,
                       !.saturated = (run >= SENSOR_SATURATED_MS)]
    ELSE [f EXCEPT !.lowRunMs = 0, !.saturated = FALSE]

\* mutant: the flag is set one tick late, on a run above SENSOR_SATURATED_MS
Saturation_LateByOne(f, active) ==
    IF active
    THEN LET run == (f.lowRunMs + LOOP_PERIOD_MS) % Half
         IN  [f EXCEPT !.lowRunMs = run,
                       !.saturated = IF run > SENSOR_SATURATED_MS THEN TRUE
                                     ELSE f.saturated]
    ELSE [f EXCEPT !.lowRunMs = 0, !.saturated = FALSE]

\* mutant: an inactive sample clears the saturated flag but not the run
\* counter
Saturation_KeepsRun(f, active) ==
    IF active
    THEN LET run == (f.lowRunMs + LOOP_PERIOD_MS) % Half
         IN  [f EXCEPT !.lowRunMs = run,
                       !.saturated = IF run >= SENSOR_SATURATED_MS THEN TRUE
                                     ELSE f.saturated]
    ELSE [f EXCEPT !.saturated = FALSE]

\* update line 51-60: saturation tracking of one channel; lowRunMs is a
\* uint16_t, so the sum is taken modulo 2^16
Saturation(f, active) ==
    IF active
    THEN LET run == (f.lowRunMs + LOOP_PERIOD_MS) % Half
         IN  [f EXCEPT !.lowRunMs = run,
                       !.saturated = IF run >= SENSOR_SATURATED_MS THEN TRUE
                                     ELSE f.saturated]
    ELSE [f EXCEPT !.lowRunMs = 0, !.saturated = FALSE]

\* SensorArray::update on the raw samples smp: channel -> BOOLEAN
SensorUpdate(fs, smp) ==
    [i \in Channels |-> Saturation(pushSample(fs[i], smp[i]), smp[i])]

\* SensorArray::getFiltered
getFiltered(fs) ==
    [top |-> evaluateSensor(fs[0]), bottom |-> evaluateSensor(fs[1]),
     left |-> evaluateSensor(fs[2]), right |-> evaluateSensor(fs[3])]

\* ------------------------------------------------------------------------
\* SensorReading (sensor_array.cpp line 22-31)
\* ------------------------------------------------------------------------
SensorStates == {"INACTIVE", "ACTIVE", "SATURATED"}

\* mutant: a saturated channel counts as a detection
anyActive_CountsSaturated(r) ==
    \/ r.top # "INACTIVE"
    \/ r.bottom # "INACTIVE"
    \/ r.left # "INACTIVE"
    \/ r.right # "INACTIVE"

\* SensorReading::anyActive
anyActive(r) ==
    \/ r.top = "ACTIVE"
    \/ r.bottom = "ACTIVE"
    \/ r.left = "ACTIVE"
    \/ r.right = "ACTIVE"

\* SensorReading::noneActive
noneActive(r) == ~anyActive(r)

\* mutant: the horizontal bias is left whenever the left channel is ACTIVE
getDirection_LeftWins(fs) ==
    LET r == getFiltered(fs)
        l == r.left = "ACTIVE"
        ri == r.right = "ACTIVE"
        u == r.top = "ACTIVE"
        d == r.bottom = "ACTIVE"
        h == IF ri /\ ~l THEN 1 ELSE IF l THEN -1 ELSE 0
        v == IF d /\ ~u THEN 1 ELSE IF u /\ ~d THEN -1 ELSE 0
    IN  IF noneActive(r) THEN "NONE"
        ELSE CASE h = -1 /\ v = -1 -> "UP_LEFT"
               [] h = -1 /\ v = 0 -> "LEFT"
               [] h = -1 /\ v = 1 -> "DOWN_LEFT"
               [] h = 0 /\ v = -1 -> "UP"
               [] h = 0 /\ v = 1 -> "DOWN"
               [] h = 1 /\ v = -1 -> "UP_RIGHT"
               [] h = 1 /\ v = 0 -> "RIGHT"
               [] h = 1 /\ v = 1 -> "DOWN_RIGHT"
               [] OTHER -> "CENTER"

\* SensorArray::getDirection on the filters fs: h is -1 for left, +1 for
\* right, v is -1 for up, +1 for down
getDirection(fs) ==
    LET r == getFiltered(fs)
        l == r.left = "ACTIVE"
        ri == r.right = "ACTIVE"
        u == r.top = "ACTIVE"
        d == r.bottom = "ACTIVE"
        h == IF ri /\ ~l THEN 1 ELSE IF l /\ ~ri THEN -1 ELSE 0
        v == IF d /\ ~u THEN 1 ELSE IF u /\ ~d THEN -1 ELSE 0
    IN  IF noneActive(r) THEN "NONE"
        ELSE CASE h = -1 /\ v = -1 -> "UP_LEFT"
               [] h = -1 /\ v = 0 -> "LEFT"
               [] h = -1 /\ v = 1 -> "DOWN_LEFT"
               [] h = 0 /\ v = -1 -> "UP"
               [] h = 0 /\ v = 1 -> "DOWN"
               [] h = 1 /\ v = -1 -> "UP_RIGHT"
               [] h = 1 /\ v = 0 -> "RIGHT"
               [] h = 1 /\ v = 1 -> "DOWN_RIGHT"
               [] OTHER -> "CENTER"

\* ------------------------------------------------------------------------
\* SignalMonitor (signal_monitor.cpp)
\* ------------------------------------------------------------------------

\* SignalMonitor::init at clock value t
MonInitState(t) ==
    [state |-> "TRACKING", prevState |-> "TRACKING", lastSignalMs |-> t,
     lastBlinkMs |-> t, ledState |-> FALSE, pin |-> "HIGH"]

\* mutant: the park threshold is tested strictly
LossState_StrictPark(state, elapsed) ==
    IF ~U32Less(elapsed, SIGNAL_LOSS_PARK_MS + 1) THEN "PARKED"
    ELSE IF ~U32Less(elapsed, SIGNAL_LOSS_SEARCH_MS) THEN "SEARCHING"
    ELSE state

\* update line 56-63: the loss thresholds, evaluated beyond the holdoff
LossState(state, elapsed) ==
    IF ~U32Less(elapsed, SIGNAL_LOSS_PARK_MS) THEN "PARKED"
    ELSE IF ~U32Less(elapsed, SIGNAL_LOSS_SEARCH_MS) THEN "SEARCHING"
    ELSE state

\* mutant: a detection restarts the loss clock but only TRACKING or
\* SEARCHING return to TRACKING at once
MonDetected_NotFromParked(m, t) ==
    [m EXCEPT !.lastSignalMs = t,
              !.state = IF m.state = "PARKED" THEN "PARKED" ELSE "TRACKING"]

\* update line 38-44: a detection
MonDetected(m, t) ==
    [m EXCEPT !.lastSignalMs = t, !.state = "TRACKING"]

\* mutant: the holdoff branch is missing and the search threshold is the
\* holdoff, so a dropout starts the search at once after 500 ms
MonLost_SearchAtHoldoff(m, t) ==
    LET elapsed == U32Sub(t, m.lastSignalMs)
    IN  IF U32Less(elapsed, SIGNAL_PRESENT_HOLDOFF_MS) THEN m
        ELSE IF ~U32Less(elapsed, SIGNAL_LOSS_PARK_MS)
             THEN [m EXCEPT !.state = "PARKED"]
             ELSE [m EXCEPT !.state = "SEARCHING"]

\* mutant: the holdoff window is longer than the search threshold
MonLost_LongHoldoff(m, t) ==
    LET elapsed == U32Sub(t, m.lastSignalMs)
    IN  IF U32Less(elapsed, SIGNAL_LOSS_SEARCH_MS + 1) THEN m
        ELSE [m EXCEPT !.state = LossState(m.state, elapsed)]

\* update line 46-63: no detection
MonLost(m, t) ==
    LET elapsed == U32Sub(t, m.lastSignalMs)
    IN  IF U32Less(elapsed, SIGNAL_PRESENT_HOLDOFF_MS) THEN m
        ELSE [m EXCEPT !.state = LossState(m.state, elapsed)]

\* mutant: the snapshot of the previous state is taken after the rule ran
MonUpdate_LateSnapshot(m, detected, t) ==
    LET m1 == IF detected THEN MonDetected(m, t) ELSE MonLost(m, t)
    IN  [m1 EXCEPT !.prevState = m1.state]

\* SignalMonitor::update at clock value t
MonUpdate(m, detected, t) ==
    LET m0 == [m EXCEPT !.prevState = m.state]
    IN  IF detected THEN MonDetected(m0, t) ELSE MonLost(m0, t)

\* SignalMonitor::stateChanged
stateChanged(m) == m.state # m.prevState

\* mutant: while SEARCHING the level flips on every call
MonUpdateStatusLED_EveryCall(m, t) ==
    IF m.state = "TRACKING" THEN [m EXCEPT !.pin = "HIGH"]
    ELSE IF m.state = "PARKED" THEN [m EXCEPT !.pin = "LOW"]
    ELSE [m EXCEPT !.ledState = ~m.ledState, !.lastBlinkMs = t,
                   !.pin = IF ~m.ledState THEN "HIGH" ELSE "LOW"]

\* SignalMonitor::updateStatusLED at clock value t
MonUpdateStatusLED(m, t) ==
    IF m.state = "TRACKING" THEN [m EXCEPT !.pin = "HIGH"]
    ELSE IF m.state = "PARKED" THEN [m EXCEPT !.pin = "LOW"]
    ELSE LET toggle == ~U32Less(U32Sub(t, m.lastBlinkMs), 500)
             led == IF toggle THEN ~m.ledState ELSE m.ledState
         IN  [m EXCEPT !.ledState = led,
                       !.lastBlinkMs = IF toggle THEN t ELSE @,
                       !.pin = IF led THEN "HIGH" ELSE "LOW"]

\* the record of updateStatusLED calls before the first call, the level
\* having been written by init() at clock value t
LedInit(t) ==
    [calls |-> 0, state |-> "none", preState |-> "none", prePin |-> "HIGH",
     toggled |-> FALSE, sinceBlink |-> <<0, 0>>, sinceChange |-> <<0, 0>>,
     hadChange |-> FALSE, changeMs |-> t]

\* the record after updateStatusLED is called on the monitor m at clock
\* value t
LedCalled(g, m, t) ==
    LET m1 == MonUpdateStatusLED(m, t)
    IN  [calls |-> g.calls + 1, state |-> m.state, preState |-> g.state,
         prePin |-> m.pin, toggled |-> (m1.ledState # m.ledState),
         sinceBlink |-> U32Sub(t, m.lastBlinkMs),
         sinceChange |-> U32Sub(t, g.changeMs),
         hadChange |-> g.calls > 0 /\ (g.hadChange \/ g.prePin # m.pin),
         changeMs |-> IF m1.pin # m.pin THEN t ELSE g.changeMs]

\* ------------------------------------------------------------------------
\* TiltController (tilt_controller.cpp)
\* ------------------------------------------------------------------------

\* TiltController::init at clock value t
TiltInitState(t) == [angle |-> TILT_HOME_DEG, lastStepMs |-> t]

\* mutant: the upper bound is not enforced
ClampTilt_NoUpper(deg) ==
    IF deg < TILT_MIN_DEG THEN TILT_MIN_DEG ELSE deg

\* setAngle line 26-27, nudge line 47-48: clamp to the allowed range
ClampTilt(deg) ==
    IF deg < TILT_MIN_DEG THEN TILT_MIN_DEG
    ELSE IF deg > TILT_MAX_DEG THEN TILT_MAX_DEG
    ELSE deg

\* nudge line 42-43: clamp the step magnitude
ClampStep(delta) ==
    IF delta > TILT_STEP_DEG THEN TILT_STEP_DEG
    ELSE IF delta < -TILT_STEP_DEG THEN -TILT_STEP_DEG
    ELSE delta

\* mutant: setAngle also clears the time stamp of the last step
TiltSetAngle_ClearsStamp(t, degrees) ==
    [angle |-> ClampTilt(degrees), lastStepMs |-> U32(0)]

\* TiltController::setAngle
TiltSetAngle(t, degrees) == [t EXCEPT !.angle = ClampTilt(degrees)]

\* mutant: a step exactly TILT_HOLDOFF_MS after the last one is still refused
TiltNudgeAccepted_Strict(t, tnow) ==
    ~U32Less(U32Sub(tnow, t.lastStepMs), TILT_HOLDOFF_MS + 1)

\* nudge line 37: the return value; the rate limit lets the step through
TiltNudgeAccepted(t, tnow) ==
    ~U32Less(U32Sub(tnow, t.lastStepMs), TILT_HOLDOFF_MS)

\* mutant: a rejected nudge also records the time of the call
TiltNudge_StampsRejected(t, delta, tnow) ==
    IF TiltNudgeAccepted(t, tnow)
    THEN [angle |-> ClampTilt(t.angle + ClampStep(delta)), lastStepMs |-> tnow]
    ELSE [t EXCEPT !.lastStepMs = tnow]

\* mutant: a step that is clamped away is accepted without recording its
\* time
TiltNudge_NoStampAtEdge(t, delta, tnow) ==
    IF TiltNudgeAccepted(t, tnow)
    THEN [angle |-> ClampTilt(t.angle + ClampStep(delta)),
          lastStepMs |-> IF ClampTilt(t.angle + ClampStep(delta)) = t.angle
                         THEN t.lastStepMs ELSE tnow]
    ELSE t

\* TiltController::nudge at clock value tnow, the new controller state
TiltNudge(t, delta, tnow) ==
    IF TiltNudgeAccepted(t, tnow)
    THEN [angle |-> ClampTilt(t.angle + ClampStep(delta)), lastStepMs |-> tnow]
    ELSE t

\* TiltController::parkHome
TiltParkHome(t) == TiltSetAngle(t, TILT_HOME_DEG)

\* TiltController::goScanPosition
TiltGoScanPosition(t) == TiltSetAngle(t, TILT_SCAN_DEG)

\* ------------------------------------------------------------------------
\* TrackingEngine (tracking_engine.cpp)
\* ------------------------------------------------------------------------

\* TrackingEngine::init
TrackerInitState == [lastLeftActiveMs |-> U32(0), lastRightActiveMs |-> U32(0)]

\* computePanSpeed line 56-61: the approach memory after the call
TrackerMemory(k, r, tnow) ==
    [lastLeftActiveMs |-> IF r.left = "ACTIVE" THEN tnow
                          ELSE k.lastLeftActiveMs,
     lastRightActiveMs |-> IF r.right = "ACTIVE" THEN tnow
                           ELSE k.lastRightActiveMs]

\* computePanSpeed line 70-77: the opposing sensor was recently active
nearCenter(k, r, tnow) ==
    IF r.left = "ACTIVE"
    THEN U32Less(U32Sub(tnow, k.lastRightActiveMs), APPROACH_MEMORY_MS)
    ELSE U32Less(U32Sub(tnow, k.lastLeftActiveMs), APPROACH_MEMORY_MS)

\* mutant: the dead band holds only when neither horizontal channel is
\* active
DeadBand_NeitherOnly(r) == r.left # "ACTIVE" /\ r.right # "ACTIVE"

\* computePanSpeed line 64: the horizontal dead band
DeadBand(r) == (r.left = "ACTIVE") = (r.right = "ACTIVE")

\* mutant: the sign convention is reversed
PanDirection_Reversed(r) == IF r.left = "ACTIVE" THEN 1 ELSE -1

\* computePanSpeed line 82-86: negative = left (CCW), positive = right (CW)
PanDirection(r) == IF r.left = "ACTIVE" THEN -1 ELSE 1

\* TrackingEngine::computePanSpeed, the return value, in hundredths
computePanSpeed(k, r, tnow) ==
    LET k1 == TrackerMemory(k, r, tnow)
    IN  IF DeadBand(r) THEN 0
        ELSE PanDirection(r) * (IF nearCenter(k1, r, tnow)
                                THEN TRACK_PAN_SPEED_SLOW
                                ELSE TRACK_PAN_SPEED_FAST)

\* mutant: the vertical dead band holds only when neither channel is active
computeTiltDelta_BothUp(r) ==
    IF r.top = "ACTIVE" THEN TILT_STEP_DEG
    ELSE IF r.bottom = "ACTIVE" THEN -TILT_STEP_DEG
    ELSE 0

\* TrackingEngine::computeTiltDelta
computeTiltDelta(r) ==
    IF (r.top = "ACTIVE") = (r.bottom = "ACTIVE") THEN 0
    ELSE IF r.top = "ACTIVE" THEN TILT_STEP_DEG
    ELSE -TILT_STEP_DEG

\* ------------------------------------------------------------------------
\* PanController driven by an arbitrary caller
\* ------------------------------------------------------------------------

\* speeds a caller may pass, in hundredths: in and out of [-1, 1], on both
\* sides of the dead zone
SpeedInputs == {-150, -100, -80, -30, -15, -14, -5, 0, 5, 14, 15, 30, 80, 100, 150}

\* dt_ms values a caller may pass (uint16_t)
DtInputs == {0, 100, 1000, 65535}

\* largest number of SignalMonitor::update calls in a run
MaxUpdates == 5

\* clock advances between two update calls: a tick, the distances that put
\* the elapsed time just below and on each threshold, one jump past the
\* park threshold, and one that carries the clock around 2^32
Advances ==
    {U32(0), U32(1), U32(LOOP_PERIOD_MS), U32(499), U32(2500), U32(12000),
     U32(15000), <<Half - 1, Half - 16000>>}

\* every SensorReading
Readings == [top : SensorStates, bottom : SensorStates,
             left : SensorStates, right : SensorStates]

\* the reading before the first tick: every window empty
NoReading == [top |-> "INACTIVE", bottom |-> "INACTIVE",
              left |-> "INACTIVE", right |-> "INACTIVE"]

\* update() calls after which a channel that stayed active is saturated
SaturationTicks == SENSOR_SATURATED_MS \div LOOP_PERIOD_MS

\* the raw samples of one tick.  The beacon drives top and left together,
\* bottom sees the complement and right sees nothing, so that the four
\* channels hold different windows.
RawInputs ==
    { [i \in Channels |-> CASE i = 0 -> b [] i = 1 -> ~b [] i = 2 -> b
                             [] OTHER -> FALSE] : b \in BOOLEAN }

\* pan.init()
InitPan ==
    /\ pan = PanInitState
    /\ panOp = "init"
    /\ panArg = 0
    /\ panRet = FALSE

\* monitor.init(), before the first reading is taken
InitMonitor ==
    /\ now = U32(0)
    /\ monitor = MonInitState(U32(0))
    /\ monIn = FALSE
    /\ monPre = MonInitState(U32(0))
    /\ monCalls = 0
    /\ ledCall = LedInit(U32(0))
    /\ reading = NoReading

\* the build with the filter configuration of config.h
InitConfig ==
    config = [window |-> SENSOR_FILTER_WINDOW,
              threshold |-> SENSOR_FILTER_THRESHOLD]

\* sensors.init()
InitSensors ==
    /\ filters = [i \in Channels |-> FilterInit]
    /\ raw = [i \in Channels |-> FALSE]
    /\ window = [i \in Channels |-> <<>>]
    /\ rawRun = [i \in Channels |-> 0]
    /\ satPre = [i \in Channels |-> FALSE]
    /\ direction = "unset"
    /\ phase = "running"

\* tilt.init()
InitTilt ==
    /\ tilt = TiltInitState(U32(0))
    /\ tiltOp = "init"
    /\ tiltArg = 0
    /\ tiltRet = FALSE
    /\ tiltPre = TiltInitState(U32(0))
    /\ tiltPrior = "init"
    /\ tiltCalls = 0

\* tracker.init(&pan, &tilt)
InitTracker ==
    /\ tracker = TrackerInitState
    /\ trkOp = "init"
    /\ trkCmd = 0
    /\ trkNudge = "none"
    /\ trkPre = TiltInitState(U32(0))
    /\ trkEver = [left |-> FALSE, leftMs |-> U32(0),
                  right |-> FALSE, rightMs |-> U32(0)]
    /\ trkCalls = 0

\* the statics of main.cpp before the first loop()
InitLoop ==
    /\ sweepDirectionCW = TRUE
    /\ calls = <<>>
    /\ panPre = PanInitState
    /\ resetPre = [ret |-> FALSE, pos |-> 0]
    /\ trueDeg = 0
    /\ ticks = 0
    /\ beacon = "seen"

\* setup(): the state in which loop() runs for the first time
Init ==
    /\ InitPan
    /\ InitMonitor
    /\ InitConfig
    /\ InitSensors
    /\ InitTilt
    /\ InitTracker
    /\ InitLoop

CallSetSpeed ==
    \E v \in SpeedInputs :
        /\ pan' = PanSetSpeed(pan, v)
        /\ panOp' = "setSpeed"
        /\ panArg' = v
        /\ UNCHANGED <<panRet, monVars, reading, senVars, tiltVars, trkVars, loopVars>>

CallStop ==
    /\ pan' = PanStop(pan)
    /\ panOp' = "stop"
    /\ panArg' = 0
    /\ UNCHANGED <<panRet, monVars, reading, senVars, tiltVars, trkVars, loopVars>>

CallUpdatePosition ==
    \E dt \in DtInputs :
        /\ pan' = PanUpdatePosition(pan, dt)
        /\ panOp' = "updatePosition"
        /\ panArg' = dt
        /\ UNCHANGED <<panRet, monVars, reading, senVars, tiltVars, trkVars, loopVars>>

CallParkHome ==
    /\ pan' = PanParkHome(pan)
    /\ panRet' = PanParkHomeArrived(pan)
    /\ panOp' = "parkHome"
    /\ panArg' = 0
    /\ UNCHANGED <<monVars, reading, senVars, tiltVars, trkVars, loopVars>>

CallResetPosition ==
    /\ pan' = PanResetPosition(pan)
    /\ panOp' = "resetPosition"
    /\ panArg' = 0
    /\ UNCHANGED <<panRet, monVars, reading, senVars, tiltVars, trkVars, loopVars>>

PanNext ==
    \/ CallSetSpeed
    \/ CallStop
    \/ CallUpdatePosition
    \/ CallParkHome
    \/ CallResetPosition

PanSpec == Init /\ [][PanNext]_vars

\* ------------------------------------------------------------------------
\* SignalMonitor driven by an arbitrary signal trace and clock
\* ------------------------------------------------------------------------

\* the clock advances by d and update(detected) is called
CallMonUpdate ==
    /\ monCalls < MaxUpdates
    /\ \E d \in Advances, detected \in BOOLEAN :
        /\ now' = U32Add(now, d)
        /\ monitor' = MonUpdate(monitor, detected, now')
        /\ monIn' = detected
        /\ monPre' = monitor
        /\ monCalls' = monCalls + 1
    /\ UNCHANGED <<ledCall, reading, panVars, senVars, tiltVars, trkVars, loopVars>>

MonNext == CallMonUpdate

MonSpec == Init /\ [][MonNext]_vars

\* ------------------------------------------------------------------------
\* SignalMonitor with update() and updateStatusLED() called at arbitrary
\* times
\* ------------------------------------------------------------------------

\* an update call, <<clock advance before it, anySignalDetected>>: a tick
\* later with or without a detection; without one, after the time that
\* puts a loss one tick below the search threshold, and after the rest of
\* the way to the park threshold
LedUpdateInputs ==
    {<<U32(LOOP_PERIOD_MS), TRUE>>, <<U32(LOOP_PERIOD_MS), FALSE>>,
     <<U32(2980), FALSE>>, <<U32(12000), FALSE>>}

\* clock advances before an updateStatusLED call: none (the same tick) and
\* the blink half-period
LedCallAdvances == {U32(0), U32(500)}

\* largest number of update calls in a run of LedSpec
MaxLedUpdates == 5

\* largest number of updateStatusLED calls in a run of LedSpec
MaxLedCalls == 4

LedMonUpdate ==
    /\ monCalls < MaxLedUpdates
    /\ \E in \in LedUpdateInputs :
        /\ now' = U32Add(now, in[1])
        /\ monitor' = MonUpdate(monitor, in[2], now')
        /\ monIn' = in[2]
        /\ monPre' = monitor
        /\ monCalls' = monCalls + 1
    /\ UNCHANGED <<ledCall, reading, panVars, senVars, tiltVars, trkVars, loopVars>>

CallUpdateStatusLED ==
    /\ ledCall.calls < MaxLedCalls
    /\ \E d \in LedCallAdvances :
        /\ now' = U32Add(now, d)
        /\ monitor' = MonUpdateStatusLED(monitor, now')
        /\ ledCall' = LedCalled(ledCall, monitor, now')
    /\ UNCHANGED <<monIn, monPre, monCalls, reading, panVars, senVars,
                   tiltVars, trkVars, loopVars>>

LedNext ==
    \/ LedMonUpdate
    \/ CallUpdateStatusLED

LedSpec == Init /\ [][LedNext]_vars

\* ------------------------------------------------------------------------
\* loop() steps 2-3 (main.cpp line 139-143) on an arbitrary reading:
\* monitor.update(reading.anyActive())
\* ------------------------------------------------------------------------

\* largest number of loop iterations in a run of FusionSpec
MaxFusionTicks == 2

FusionStep ==
    /\ monCalls < MaxFusionTicks
    /\ \E r \in Readings, d \in {U32(LOOP_PERIOD_MS), U32(15000)} :
        /\ reading' = r
        /\ now' = U32Add(now, d)
        /\ monitor' = MonUpdate(monitor, anyActive(r), now')
        /\ monIn' = anyActive(r)
        /\ monPre' = monitor
        /\ monCalls' = monCalls + 1
    /\ UNCHANGED <<ledCall, panVars, senVars, tiltVars, trkVars, loopVars>>

FusionNext == FusionStep

FusionSpec == Init /\ [][FusionNext]_vars

\* ------------------------------------------------------------------------
\* loop() step 2 (main.cpp line 138-139): sensors.update(), getFiltered()
\* ------------------------------------------------------------------------

\* the last SENSOR_FILTER_WINDOW elements of w with x appended
PushWindow(w, x) ==
    LET a == Append(w, x)
    IN  IF Len(a) > config.window THEN Tail(a) ELSE a

\* sensors.update() on the raw samples smp
Sample(smp) ==
    /\ filters' = SensorUpdate(filters, smp)
    /\ raw' = smp
    /\ window' = [i \in Channels |-> PushWindow(window[i], smp[i])]
    /\ rawRun' = [i \in Channels |->
                     IF ~smp[i] THEN 0
                     ELSE IF rawRun[i] < SaturationTicks THEN rawRun[i] + 1
                     ELSE rawRun[i]]
    /\ satPre' = [i \in Channels |-> filters[i].saturated]

SampleStep ==
    /\ \E smp \in RawInputs : Sample(smp)
    /\ reading' = getFiltered(filters')
    /\ UNCHANGED <<direction, config, phase, panVars, monVars, tiltVars,
                   trkVars, loopVars>>

SensorNext == SampleStep

SensorSpec == Init /\ [][SensorNext]_vars

\* ------------------------------------------------------------------------
\* setup() and sensors.update() in builds with other filter configurations
\* ------------------------------------------------------------------------

\* the values of SENSOR_FILTER_WINDOW and SENSOR_FILTER_THRESHOLD a build
\* may be made with: those of config.h, a threshold equal to the window, a
\* threshold above it, and a shorter window with a threshold below and
\* above it
Configs ==
    {[window |-> SENSOR_FILTER_WINDOW, threshold |-> SENSOR_FILTER_THRESHOLD],
     [window |-> SENSOR_FILTER_WINDOW, threshold |-> SENSOR_FILTER_WINDOW],
     [window |-> SENSOR_FILTER_WINDOW, threshold |-> SENSOR_FILTER_WINDOW + 1],
     [window |-> SENSOR_FILTER_WINDOW \div 2,
      threshold |-> SENSOR_FILTER_THRESHOLD \div 2],
     [window |-> SENSOR_FILTER_WINDOW \div 2,
      threshold |-> SENSOR_FILTER_THRESHOLD]}

\* largest number of loop() iterations in a run of ConfigSpec
MaxConfigTicks == 10

\* the firmware as built, before setup() has called sensors.init()
ConfigInit ==
    /\ InitPan
    /\ InitMonitor
    /\ config \in Configs
    /\ filters = [i \in Channels |-> FilterInit]
    /\ raw = [i \in Channels |-> FALSE]
    /\ window = [i \in Channels |-> <<>>]
    /\ rawRun = [i \in Channels |-> 0]
    /\ satPre = [i \in Channels |-> FALSE]
    /\ direction = "unset"
    /\ phase = "boot"
    /\ InitTilt
    /\ InitTracker
    /\ InitLoop

\* SensorArray::init: the pins, then FilterState{} for every channel
CallSensorInit ==
    /\ phase = "boot"
    /\ filters' = [i \in Channels |-> FilterInit]
    /\ phase' = "running"
    /\ UNCHANGED <<raw, window, rawRun, satPre, direction, config, reading,
                   panVars,
                   monVars, tiltVars, trkVars, loopVars>>

\* loop() step 2 in the running system
ConfigSample ==
    /\ phase = "running"
    /\ ticks < MaxConfigTicks
    /\ \E smp \in RawInputs : Sample(smp)
    /\ reading' = getFiltered(filters')
    /\ ticks' = ticks + 1
    /\ UNCHANGED <<direction, config, phase, panVars, monVars, tiltVars,
                   trkVars, sweepDirectionCW, calls, panPre, resetPre,
                   trueDeg, beacon>>

ConfigNext ==
    \/ CallSensorInit
    \/ ConfigSample

ConfigSpec == ConfigInit /\ [][ConfigNext]_vars

\* ------------------------------------------------------------------------
\* SensorArray::getDirection called on filters in every combination of
\* channel states
\* ------------------------------------------------------------------------

\* one channel's filter after n update() calls with the same raw sample,
\* the first half of the calls, then the rest
RECURSIVE ChannelAfter(_, _, _)
ChannelAfter(f, active, n) ==
    IF n = 0 THEN f
    ELSE IF n = 1 THEN Saturation(pushSample(f, active), active)
    ELSE CHOOSE g \in { ChannelAfter(h, active, n - (n \div 2)) :
                          h \in {ChannelAfter(f, active, n \div 2)} } : TRUE

\* the lengths of the run of active samples a channel's history ends with:
\* none (the channel reads INACTIVE), just enough for the vote (ACTIVE), and
\* enough to be stuck (SATURATED)
ActiveRuns == {0, config.threshold, SaturationTicks}

\* one channel's filter after SaturationTicks update() calls of which the
\* last k had the raw sample active
ChannelWithRun(k) ==
    ChannelAfter(ChannelAfter(FilterInit, FALSE, SaturationTicks - k), TRUE, k)

\* the samples of that history that are in the window, newest last
WindowWithRun(k) ==
    [j \in 1..config.window |-> j > config.window - k]

\* the sensors after SaturationTicks update() calls, every channel with a
\* history of its own
DirSensors ==
    \E k \in [Channels -> ActiveRuns] :
        /\ filters = [i \in Channels |-> ChannelWithRun(k[i])]
        /\ raw = [i \in Channels |-> k[i] > 0]
        /\ window = [i \in Channels |-> WindowWithRun(k[i])]
        /\ rawRun = [i \in Channels |-> k[i]]
        /\ satPre = [i \in Channels |-> FALSE]
        /\ direction = "unset"
        /\ phase = "running"

DirInit ==
    /\ InitPan
    /\ InitMonitor
    /\ InitConfig
    /\ DirSensors
    /\ InitTilt
    /\ InitTracker
    /\ InitLoop

CallGetDirection ==
    /\ direction = "unset"
    /\ direction' = getDirection(filters)
    /\ reading' = getFiltered(filters)
    /\ UNCHANGED <<filters, raw, window, rawRun, satPre, config, phase,
                   panVars,
                   monVars, tiltVars, trkVars, loopVars>>

DirNext == CallGetDirection

DirectionSpec == DirInit /\ [][DirNext]_vars

\* ------------------------------------------------------------------------
\* TiltController driven by an arbitrary caller
\* ------------------------------------------------------------------------

\* targets a caller may pass to setAngle (int16_t): both ends of the type,
\* both sides of each end of the range
TiltTargets == {-32768, -1, 0, 1, 20, 44, 45, 46, 32767}

\* deltas a caller may pass to nudge (int8_t)
NudgeDeltas == {-128, -2, -1, 0, 1, 2, 127}

\* clock advances before a nudge: none, a tick, the distances just below and
\* on the holdoff, and one that carries the clock around 2^32
TiltAdvances ==
    {U32(0), U32(LOOP_PERIOD_MS), U32(TILT_HOLDOFF_MS - 1),
     U32(TILT_HOLDOFF_MS), <<Half - 1, Half - 50>>}

\* largest number of nudge calls in a run
MaxNudges == 3

\* what precedes the next call, from the last call (op, ret) and what
\* preceded it: parkHome and goScanPosition are setAngle calls
TiltSince(op, ret, prior) ==
    IF op \in {"setAngle", "parkHome", "goScanPosition"} THEN "setAngle"
    ELSE IF op = "nudge" /\ ret THEN "nudge"
    ELSE prior

CallSetAngle ==
    \E degrees \in TiltTargets :
        /\ tilt' = TiltSetAngle(tilt, degrees)
        /\ tiltOp' = "setAngle"
        /\ tiltArg' = degrees
        /\ tiltPre' = tilt
        /\ tiltPrior' = TiltSince(tiltOp, tiltRet, tiltPrior)
        /\ UNCHANGED <<tiltRet, tiltCalls, panVars, monVars, reading, senVars,
                       trkVars, loopVars>>

CallNudge ==
    /\ tiltCalls < MaxNudges
    /\ \E delta \in NudgeDeltas, d \in TiltAdvances :
        LET t == U32Add(now, d)
        IN  /\ now' = t
            /\ tilt' = TiltNudge(tilt, delta, t)
            /\ tiltRet' = TiltNudgeAccepted(tilt, t)
            /\ tiltOp' = "nudge"
            /\ tiltArg' = delta
            /\ tiltPre' = tilt
            /\ tiltPrior' = TiltSince(tiltOp, tiltRet, tiltPrior)
            /\ tiltCalls' = tiltCalls + 1
            /\ UNCHANGED <<monitor, monIn, monPre, monCalls, ledCall, panVars,
                           reading, senVars, trkVars, loopVars>>

CallTiltParkHome ==
    /\ tilt' = TiltParkHome(tilt)
    /\ tiltOp' = "parkHome"
    /\ tiltArg' = 0
    /\ tiltPre' = tilt
    /\ tiltPrior' = TiltSince(tiltOp, tiltRet, tiltPrior)
    /\ UNCHANGED <<tiltRet, tiltCalls, panVars, monVars, reading, senVars,
                   trkVars, loopVars>>

CallGoScanPosition ==
    /\ tilt' = TiltGoScanPosition(tilt)
    /\ tiltOp' = "goScanPosition"
    /\ tiltArg' = 0
    /\ tiltPre' = tilt
    /\ tiltPrior' = TiltSince(tiltOp, tiltRet, tiltPrior)
    /\ UNCHANGED <<tiltRet, tiltCalls, panVars, monVars, reading, senVars,
                   trkVars, loopVars>>

TiltNext ==
    \/ CallSetAngle
    \/ CallNudge
    \/ CallTiltParkHome
    \/ CallGoScanPosition

TiltSpec == Init /\ [][TiltNext]_vars

\* ------------------------------------------------------------------------
\* TrackingEngine driven by an arbitrary caller, over a PanController that
\* integrates between the calls
\* ------------------------------------------------------------------------

\* the readings passed to update: every combination of the two horizontal
\* channels, every combination of the two vertical channels, and two
\* diagonal beacon positions
TrackReadings ==
    { r \in Readings :
        \/ r.top = "INACTIVE" /\ r.bottom = "INACTIVE"
        \/ r.left = "INACTIVE" /\ r.right = "INACTIVE"
        \/ r.top = "ACTIVE" /\ r.bottom = "INACTIVE"
           /\ r.left = "ACTIVE" /\ r.right = "INACTIVE"
        \/ r.top = "INACTIVE" /\ r.bottom = "ACTIVE"
           /\ r.left = "INACTIVE" /\ r.right = "ACTIVE" }

\* clock advances before an update: none, a tick, and the distances that put
\* the age of the approach memory just below and on APPROACH_MEMORY_MS
TrackAdvances ==
    {U32(0), U32(LOOP_PERIOD_MS), U32(APPROACH_MEMORY_MS - 1),
     U32(APPROACH_MEMORY_MS)}

\* largest number of TrackingEngine::update calls in a run
MaxTrackCalls == 2

\* the ghost record of the horizontal activity seen by update
EverActive(e, r, tnow) ==
    [left |-> e.left \/ r.left = "ACTIVE",
     leftMs |-> IF r.left = "ACTIVE" THEN tnow ELSE e.leftMs,
     right |-> e.right \/ r.right = "ACTIVE",
     rightMs |-> IF r.right = "ACTIVE" THEN tnow ELSE e.rightMs]

\* ------------------------------------------------------------------------
\* The module instances of main.cpp as one record, and the calls loop()
\* makes on them
\* ------------------------------------------------------------------------

\* the instances and the history kept about them, as they are now
Machine ==
    [pan |-> pan, panOp |-> panOp, panArg |-> panArg, panRet |-> panRet,
     monitor |-> monitor, monIn |-> monIn, monPre |-> monPre,
     monCalls |-> monCalls, ledCall |-> ledCall,
     tilt |-> tilt, tiltOp |-> tiltOp, tiltArg |-> tiltArg,
     tiltRet |-> tiltRet, tiltPre |-> tiltPre, tiltPrior |-> tiltPrior,
     tiltCalls |-> tiltCalls,
     tracker |-> tracker, trkOp |-> trkOp, trkCmd |-> trkCmd,
     trkNudge |-> trkNudge, trkPre |-> trkPre, trkEver |-> trkEver,
     trkCalls |-> trkCalls,
     cw |-> sweepDirectionCW, panPre |-> panPre, resetPre |-> resetPre,
     trueDeg |-> trueDeg]

\* the instances become S
Commit(S) ==
    /\ pan' = S.pan
    /\ panOp' = S.panOp
    /\ panArg' = S.panArg
    /\ panRet' = S.panRet
    /\ monitor' = S.monitor
    /\ monIn' = S.monIn
    /\ monPre' = S.monPre
    /\ monCalls' = S.monCalls
    /\ ledCall' = S.ledCall
    /\ tilt' = S.tilt
    /\ tiltOp' = S.tiltOp
    /\ tiltArg' = S.tiltArg
    /\ tiltRet' = S.tiltRet
    /\ tiltPre' = S.tiltPre
    /\ tiltPrior' = S.tiltPrior
    /\ tiltCalls' = S.tiltCalls
    /\ tracker' = S.tracker
    /\ trkOp' = S.trkOp
    /\ trkCmd' = S.trkCmd
    /\ trkNudge' = S.trkNudge
    /\ trkPre' = S.trkPre
    /\ trkEver' = S.trkEver
    /\ trkCalls' = S.trkCalls
    /\ sweepDirectionCW' = S.cw
    /\ panPre' = S.panPre
    /\ resetPre' = S.resetPre
    /\ trueDeg' = S.trueDeg

\* a TiltController call op(arg) that leaves the controller as tl
TiltCalled(S, op, arg, tl) ==
    [S EXCEPT !.tilt = tl, !.tiltOp = op, !.tiltArg = arg, !.tiltPre = S.tilt,
              !.tiltPrior = TiltSince(S.tiltOp, S.tiltRet, S.tiltPrior)]

\* mutant: a rejected nudge is attempted a second time
TrackerNudge_Retry(S, delta, t) ==
    LET ok == TiltNudgeAccepted(S.tilt, t)
        S1 == TiltCalled(S, "nudge", delta, TiltNudge(S.tilt, delta, t))
    IN  [S1 EXCEPT !.tiltRet = ok,
                   !.tiltCalls = IF ok THEN @ + 1 ELSE @ + 2,
                   !.trkNudge = IF ok THEN "accepted" ELSE "rejected"]

\* update line 38-41: tilt_->nudge(delta) at clock value t
TrackerNudge(S, delta, t) ==
    LET ok == TiltNudgeAccepted(S.tilt, t)
        S1 == TiltCalled(S, "nudge", delta, TiltNudge(S.tilt, delta, t))
    IN  [S1 EXCEPT !.tiltRet = ok, !.tiltCalls = @ + 1,
                   !.trkNudge = IF ok THEN "accepted" ELSE "rejected"]

\* TrackingEngine::update(r) at clock value t
TrackerUpdate(S, r, t) ==
    LET cmd == computePanSpeed(S.tracker, r, t)
        delta == computeTiltDelta(r)
        S1 == [S EXCEPT !.tracker = TrackerMemory(S.tracker, r, t),
                        !.pan = PanSetSpeed(S.pan, cmd),
                        !.panOp = "setSpeed", !.panArg = cmd,
                        !.trkOp = "update", !.trkCmd = cmd,
                        !.trkNudge = "none", !.trkPre = S.tilt,
                        !.trkEver = EverActive(S.trkEver, r, t),
                        !.trkCalls = @ + 1]
    IN  IF delta # 0 THEN TrackerNudge(S1, delta, t) ELSE S1

\* mutant: halt() also returns the tilt to its home angle
TrackerHalt_ParksTilt(S) ==
    [S EXCEPT !.pan = PanStop(S.pan), !.panOp = "stop", !.panArg = 0,
              !.tilt = TiltParkHome(S.tilt), !.trkOp = "halt"]

\* TrackingEngine::halt: pan_->stop(), nothing else
TrackerHalt(S) ==
    [S EXCEPT !.pan = PanStop(S.pan), !.panOp = "stop", !.panArg = 0,
              !.trkOp = "halt"]

CallTrackerUpdate ==
    /\ trkCalls < MaxTrackCalls
    /\ \E r \in TrackReadings, d \in TrackAdvances :
        /\ now' = U32Add(now, d)
        /\ reading' = r
        /\ Commit(TrackerUpdate(Machine, r, U32Add(now, d)))
        /\ UNCHANGED <<senVars, calls, ticks, beacon>>

\* TrackingEngine::halt
CallHalt ==
    /\ Commit(TrackerHalt(Machine))
    /\ UNCHANGED <<now, reading, senVars, calls, ticks, beacon>>

\* the integration that follows an update, over a second or over the longest
\* dt
TrackMove ==
    \E dt \in {1000, 65535} :
        /\ trkOp = "update"
        /\ pan' = PanUpdatePosition(pan, dt)
        /\ panOp' = "updatePosition"
        /\ panArg' = dt
        /\ trkOp' = "move"
        /\ UNCHANGED <<panRet, monVars, reading, senVars, tiltVars, tracker,
                       trkCmd, trkNudge, trkPre, trkEver, trkCalls, loopVars>>

TrackNext ==
    \/ CallTrackerUpdate
    \/ CallHalt
    \/ TrackMove

TrackSpec == Init /\ [][TrackNext]_vars

\* ------------------------------------------------------------------------
\* loop() of main.cpp.  The filtered reading of the tick is an input: any
\* value getFiltered() can return.
\* ------------------------------------------------------------------------

\* SEARCH_SWEEP_DEG in position units
SweepLimit == SEARCH_SWEEP_DEG * PosScale

\* mutant: the state is read before monitor.update ran
LoopState_BeforeUpdate(m) == m.prevState

\* loop line 143: the state the tick acts on
LoopState(m) == m.state

\* mutant: the entry action of the current state runs on every tick
EntryCalls_EveryTick(m) ==
    IF LoopState(m) = "TRACKING"
    THEN <<"onEnterTracking">> \o
         (IF m.prevState = "PARKED" THEN <<"pan.resetPosition">> ELSE <<>>)
    ELSE IF LoopState(m) = "SEARCHING"
         THEN <<"onEnterSearching", "tracker.halt", "sweepDirectionCW">>
    ELSE <<"onEnterParked", "tracker.halt">>

\* mutant: entering SEARCHING keeps the sweep direction of the last sweep
EntryCalls_KeepsDirection(m) ==
    IF ~stateChanged(m) THEN <<>>
    ELSE IF LoopState(m) = "TRACKING"
         THEN <<"onEnterTracking">> \o
              (IF m.prevState = "PARKED" THEN <<"pan.resetPosition">> ELSE <<>>)
    ELSE IF LoopState(m) = "SEARCHING"
         THEN <<"onEnterSearching", "tracker.halt">>
    ELSE <<"onEnterParked", "tracker.halt">>

\* loop line 146-153 with onEnterTracking, onEnterSearching, onEnterParked:
\* the entry action that runs, followed by the calls it makes
EntryCalls(m) ==
    IF ~stateChanged(m) THEN <<>>
    ELSE IF LoopState(m) = "TRACKING"
         THEN <<"onEnterTracking">> \o
              (IF m.prevState = "PARKED" THEN <<"pan.resetPosition">> ELSE <<>>)
    ELSE IF LoopState(m) = "SEARCHING"
         THEN <<"onEnterSearching", "tracker.halt", "sweepDirectionCW">>
    ELSE <<"onEnterParked", "tracker.halt">>

\* loop line 156-183: the calls of the routine of state st
RoutineCalls(st) ==
    IF st = "TRACKING" THEN <<"tracker.update">>
    ELSE IF st = "SEARCHING" THEN <<"tilt.goScanPosition", "pan.setSpeed">>
    ELSE <<"pan.parkHome", "tilt.parkHome">>

\* mutant: the position is integrated before the routine commands the pan
LoopBody_IntegrateFirst(m) ==
    EntryCalls(m) \o <<"pan.updatePosition">> \o RoutineCalls(LoopState(m))
        \o <<"monitor.updateStatusLED">>

\* loop line 146-189: the calls that follow monitor.update, in order
LoopBody(m) ==
    EntryCalls(m) \o RoutineCalls(LoopState(m))
        \o <<"pan.updatePosition", "monitor.updateStatusLED">>

\* mutant: the turn is detected one tick of sweep travel beyond the sweep
\* limit
Sweep_TurnsLate(S) ==
    LET p == PanSetSpeed(S.pan, IF S.cw THEN SEARCH_SWEEP_SPEED
                                ELSE -SEARCH_SWEEP_SPEED)
        late == SweepLimit + PanDelta(SEARCH_SWEEP_SPEED, LOOP_PERIOD_MS)
    IN  [S EXCEPT !.pan = p, !.panOp = "setSpeed",
                  !.panArg = IF S.cw THEN SEARCH_SWEEP_SPEED
                             ELSE -SEARCH_SWEEP_SPEED,
                  !.cw = IF S.cw THEN ~(p.pos >= late)
                         ELSE p.pos <= -late]

\* loop line 166-176: the sweep command and the turn at the sweep limit
Sweep(S) ==
    LET p == PanSetSpeed(S.pan, IF S.cw THEN SEARCH_SWEEP_SPEED
                                ELSE -SEARCH_SWEEP_SPEED)
    IN  [S EXCEPT !.pan = p, !.panOp = "setSpeed",
                  !.panArg = IF S.cw THEN SEARCH_SWEEP_SPEED
                             ELSE -SEARCH_SWEEP_SPEED,
                  !.cw = IF S.cw THEN ~(p.pos >= SweepLimit)
                         ELSE p.pos <= -SweepLimit]

\* one call of loop() on the instances S, with the tick's reading r at clock
\* value t
Apply(c, S, r, t) ==
    CASE c = "monitor.update" ->
            [S EXCEPT !.monPre = S.monitor, !.monIn = anyActive(r),
                      !.monitor = MonUpdate(S.monitor, anyActive(r), t),
                      !.monCalls = @ + 1]
      [] c = "pan.resetPosition" ->
            [S EXCEPT !.resetPre = [ret |-> S.panRet, pos |-> S.pan.pos],
                      !.pan = PanResetPosition(S.pan),
                      !.panOp = "resetPosition", !.panArg = 0,
                      !.trueDeg = 0]
      [] c = "tracker.halt" -> TrackerHalt(S)
      [] c = "sweepDirectionCW" -> [S EXCEPT !.cw = (S.pan.pos <= 0)]
      [] c = "tracker.update" -> TrackerUpdate(S, r, t)
      [] c = "tilt.goScanPosition" ->
            TiltCalled(S, "goScanPosition", 0, TiltGoScanPosition(S.tilt))
      [] c = "pan.setSpeed" -> Sweep(S)
      [] c = "pan.parkHome" ->
            [S EXCEPT !.pan = PanParkHome(S.pan),
                      !.panRet = PanParkHomeArrived(S.pan),
                      !.panOp = "parkHome", !.panArg = 0]
      [] c = "tilt.parkHome" ->
            TiltCalled(S, "parkHome", 0, TiltParkHome(S.tilt))
      [] c = "pan.updatePosition" ->
            [S EXCEPT !.panPre = S.pan,
                      !.pan = PanUpdatePosition(S.pan, LOOP_PERIOD_MS),
                      !.panOp = "updatePosition", !.panArg = LOOP_PERIOD_MS,
                      !.trueDeg = @ + PanDelta(S.pan.speed, LOOP_PERIOD_MS)]
      [] c = "monitor.updateStatusLED" ->
            [S EXCEPT !.monitor = MonUpdateStatusLED(S.monitor, t),
                      !.ledCall = LedCalled(S.ledCall, S.monitor, t)]
      [] c \in {"onEnterTracking", "onEnterSearching", "onEnterParked"} -> S

\* the calls cs made one after the other
RECURSIVE Run(_, _, _, _)
Run(cs, S, r, t) ==
    IF cs = <<>> THEN S
    ELSE Run(Tail(cs), Apply(Head(cs), S, r, t), r, t)

\* the filtered readings of a tick: nothing, the beacon to the left, the
\* beacon to the upper right, a stuck left channel
LoopReadings ==
    {NoReading,
     [NoReading EXCEPT !.left = "ACTIVE"],
     [NoReading EXCEPT !.right = "ACTIVE", !.top = "ACTIVE"],
     [NoReading EXCEPT !.left = "SATURATED"]}

\* the time from one tick to the next: the loop period, or an overrunning
\* tick that stays below the watchdog timeout
TickDurations == {LOOP_PERIOD_MS, SIGNAL_LOSS_SEARCH_MS}

\* largest number of loop() iterations in a run of LoopSpec
MaxTicks == 6

\* one iteration of loop() with the filtered reading r, d ms after the
\* iteration before it
Iteration(r, d) ==
    LET t == U32Add(now, U32(d))
        S1 == Apply("monitor.update", Machine, r, t)
        body == LoopBody(S1.monitor)
    IN  /\ now' = t
        /\ reading' = r
        /\ calls' = <<"monitor.update">> \o body
        /\ ticks' = ticks + 1
        /\ Commit(Run(body, S1, r, t))

\* one iteration of loop() whose reading r is given, the filters left as
\* they are
Tick(r, d) ==
    /\ Iteration(r, d)
    /\ UNCHANGED senVars

\* loop() with any of the readings, on time or overrunning
LoopTick ==
    /\ ticks < MaxTicks
    /\ \E r \in LoopReadings, d \in TickDurations : Tick(r, d)
    /\ UNCHANGED beacon

LoopNext == LoopTick

LoopSpec == Init /\ [][LoopNext]_vars

\* ------------------------------------------------------------------------
\* loop() on time, tick after tick, while a beacon to the upper right is in
\* view for a while, goes out of view, and comes back
\* ------------------------------------------------------------------------

\* the reading while the beacon is in view
BeaconReading == [NoReading EXCEPT !.right = "ACTIVE", !.top = "ACTIVE"]

\* largest number of ticks the beacon is in view before it is lost
MaxSeenTicks == 20

\* largest number of loop() iterations in a run of BeaconSpec: the park
\* threshold in ticks and some more
MaxBeaconTicks == 765

BeaconSeen ==
    /\ beacon = "seen"
    /\ ticks < MaxSeenTicks
    /\ Tick(BeaconReading, LOOP_PERIOD_MS)
    /\ UNCHANGED beacon

BeaconLost ==
    /\ beacon \in {"seen", "lost"}
    /\ ticks < MaxBeaconTicks
    /\ Tick(NoReading, LOOP_PERIOD_MS)
    /\ beacon' = "lost"

BeaconBack ==
    /\ beacon = "lost"
    /\ Tick(BeaconReading, LOOP_PERIOD_MS)
    /\ beacon' = "back"

BeaconNext ==
    \/ BeaconSeen
    \/ BeaconLost
    \/ BeaconBack

BeaconSpec == Init /\ [][BeaconNext]_vars

\* ------------------------------------------------------------------------
\* PanController as loop() drives it, beside an ideal actuator: every tick
\* one pan command, then updatePosition(LOOP_PERIOD_MS)
\* ------------------------------------------------------------------------

\* the speeds the tracking and the parking routine command, and stop
DriftCommands ==
    {0, TRACK_PAN_SPEED_SLOW, -TRACK_PAN_SPEED_SLOW, TRACK_PAN_SPEED_FAST,
     -TRACK_PAN_SPEED_FAST}

\* the travel of one tick at full speed, in position units (1.2 degrees)
TickTravel == PanDelta(SpeedScale, LOOP_PERIOD_MS)

\* one tick, for as long as the estimate is within one tick of travel of the
\* ideal actuator
DriftTick ==
    /\ Abs(trueDeg - pan.pos) <= TickTravel
    /\ \E v \in DriftCommands :
        LET S1 == [Machine EXCEPT !.pan = PanSetSpeed(pan, v),
                                  !.panOp = "setSpeed", !.panArg = v]
        IN  Commit(Apply("pan.updatePosition", S1, reading, now))
    /\ UNCHANGED <<now, reading, senVars, calls, ticks, beacon>>

DriftNext == DriftTick

DriftSpec == Init /\ [][DriftNext]_vars

\* ------------------------------------------------------------------------
\* loop() while the monitor stays PARKED
\* ------------------------------------------------------------------------

\* the position estimate when the first PARKED tick calls parkHome(): both
\* limits, both sweep limits, both ends of the home tolerance, and home
ParkStarts ==
    {-PanLimit, -SweepLimit, -HomeTol, 0, HomeTol, SweepLimit, PanLimit}

\* largest number of loop() iterations in a run of ParkSpec
MaxParkTicks == 370

\* the monitor after a tick that found the signal lost for
\* SIGNAL_LOSS_PARK_MS
ParkMonitor ==
    [MonInitState(U32(0)) EXCEPT !.state = "PARKED", !.prevState = "PARKED",
                                 !.pin = "LOW"]

\* a PARKED system with the pan stopped anywhere in its range
ParkInit ==
    /\ \E p \in ParkStarts :
        /\ pan = [PanInitState EXCEPT !.pos = p]
        /\ panPre = [PanInitState EXCEPT !.pos = p]
        /\ trueDeg = p
    /\ panOp = "stop"
    /\ panArg = 0
    /\ panRet = FALSE
    /\ now = U32(SIGNAL_LOSS_PARK_MS)
    /\ monitor = ParkMonitor
    /\ monIn = FALSE
    /\ monPre = ParkMonitor
    /\ monCalls = 0
    /\ ledCall = LedCalled(LedInit(U32(0)), [ParkMonitor EXCEPT !.pin = "HIGH"],
                           U32(SIGNAL_LOSS_PARK_MS))
    /\ reading = NoReading
    /\ InitConfig
    /\ InitSensors
    /\ InitTilt
    /\ InitTracker
    /\ sweepDirectionCW = TRUE
    /\ calls = <<>>
    /\ resetPre = [ret |-> FALSE, pos |-> 0]
    /\ ticks = 0
    /\ beacon = "lost"

\* loop() one period later, no channel active
ParkTick ==
    /\ ticks < MaxParkTicks
    /\ Tick(NoReading, LOOP_PERIOD_MS)
    /\ UNCHANGED beacon

ParkNext == ParkTick

\* a step that counts an iteration: every step of ParkNext is one
ParkTickTaken == ticks < MaxParkTicks /\ ticks' = ticks + 1

\* the Arduino core calls loop() again and again: an iteration that can be
\* made is made
ParkSpec == ParkInit /\ [][ParkNext]_vars /\ WF_ticks(ParkTickTaken)

\* ------------------------------------------------------------------------
\* loop() on time, tick after tick, while a beacon stays to one side until
\* the pan is on its limit, and then goes out of view
\* ------------------------------------------------------------------------

\* the reading while the beacon is in view, to the left or to the right
EdgeReadings ==
    {[NoReading EXCEPT !.left = "ACTIVE"],
     [NoReading EXCEPT !.right = "ACTIVE"]}

\* largest number of ticks the beacon is in view: the ticks the tracking
\* routine needs from center to a limit and some more
MaxEdgeSeenTicks == 160

\* largest number of loop() iterations in a run of EdgeSpec: the park
\* threshold in ticks and some more after the beacon went out of view
MaxEdgeTicks == 920

\* a tick with the beacon in view, on the side on which it was first seen
EdgeSeen ==
    /\ beacon = "seen"
    /\ ticks < MaxEdgeSeenTicks
    /\ \E r \in EdgeReadings :
        /\ ticks = 0 \/ r = reading
        /\ Tick(r, LOOP_PERIOD_MS)
    /\ UNCHANGED beacon

\* a tick with no channel active
EdgeLost ==
    /\ ticks > 0
    /\ ticks < MaxEdgeTicks
    /\ Tick(NoReading, LOOP_PERIOD_MS)
    /\ beacon' = "lost"

EdgeNext ==
    \/ EdgeSeen
    \/ EdgeLost

EdgeSpec == Init /\ [][EdgeNext]_vars

\* ------------------------------------------------------------------------
\* loop() from the last TRACKING tick of a signal loss through the whole
\* SEARCHING period
\* ------------------------------------------------------------------------

\* the position estimate when the signal is lost: both sweep limits, next
\* to them, and at and next to center
SweepStarts ==
    {-SweepLimit, 700 - SweepLimit, -1, 0, 1, SweepLimit - 700, SweepLimit}

\* the clock value of the last detection
SweepLastSignal == 10000

\* largest number of loop() iterations in a run of SweepSpec: the SEARCHING
\* period in ticks and some more
MaxSweepTicks == 610

\* the monitor one tick before the search threshold
SweepMonitor ==
    [MonInitState(U32(0)) EXCEPT !.lastSignalMs = U32(SweepLastSignal)]

\* a TRACKING system that lost the signal SIGNAL_LOSS_SEARCH_MS minus one
\* tick ago, the pan stopped within the sweep range
SweepInit ==
    /\ \E p \in SweepStarts :
        /\ pan = [PanInitState EXCEPT !.pos = p]
        /\ panPre = [PanInitState EXCEPT !.pos = p]
        /\ trueDeg = p
    /\ panOp = "updatePosition"
    /\ panArg = LOOP_PERIOD_MS
    /\ panRet = FALSE
    /\ now = U32(SweepLastSignal + SIGNAL_LOSS_SEARCH_MS - LOOP_PERIOD_MS)
    /\ monitor = SweepMonitor
    /\ monIn = FALSE
    /\ monPre = SweepMonitor
    /\ monCalls = 0
    /\ ledCall = LedInit(U32(0))
    /\ reading = NoReading
    /\ InitConfig
    /\ InitSensors
    /\ InitTilt
    /\ InitTracker
    /\ sweepDirectionCW = TRUE
    /\ calls = <<>>
    /\ resetPre = [ret |-> FALSE, pos |-> 0]
    /\ ticks = 0
    /\ beacon = "lost"

\* loop() one period later, no channel active
SweepTick ==
    /\ ticks < MaxSweepTicks
    /\ Tick(NoReading, LOOP_PERIOD_MS)
    /\ UNCHANGED beacon

SweepNext == SweepTick

SweepSpec == SweepInit /\ [][SweepNext]_vars

\* ------------------------------------------------------------------------
\* setup() and loop() with the sensors, one raw channel stuck active from
\* power-up and the other three inactive
\* ------------------------------------------------------------------------

\* the raw samples with channel c active alone
StuckSample(c) == [i \in Channels |-> i = c]

\* the ticks after which the filter of a channel stuck active holds the
\* same values again: index repeats every SENSOR_FILTER_WINDOW ticks and the
\* uint16_t lowRunMs, which grows by LOOP_PERIOD_MS = 4 * 5 per tick, every
\* 2^16 / 4 ticks
StuckPeriodTicks == Half \div 4

\* that period on the clock, in units of 2^16 ms
StuckPeriodHalves == (StuckPeriodTicks * LOOP_PERIOD_MS) \div Half

\* largest number of loop() iterations in a run of StuckSpec: the ticks in
\* 2^32 ms, and the ticks to saturation, to the park threshold and to the
\* arrival at home, and some more
MaxStuckTicks == 214749600

\* the system at rest: parked at home for at least two ticks, the time since
\* the last detection on or beyond the park threshold, the stuck channel
\* saturated, so that an iteration of loop() changes the clock and the
\* filters and nothing else
StuckAtRest ==
    /\ monitor.state = "PARKED" /\ monitor.prevState = "PARKED"
    /\ ledCall.state = "PARKED" /\ ledCall.preState = "PARKED"
    /\ ledCall.prePin = "LOW" /\ monitor.pin = "LOW"
    /\ panRet /\ pan.speed = 0 /\ panPre = pan
    /\ tiltOp = "parkHome" /\ tiltPre = tilt /\ tiltPrior = "setAngle"
    /\ ~monIn /\ monPre = monitor
    /\ ~U32Less(U32Sub(now, monitor.lastSignalMs), SIGNAL_LOSS_PARK_MS)
    /\ \E c \in Channels :
        /\ raw = StuckSample(c)
        /\ filters[c].saturated
        /\ rawRun[c] = SaturationTicks
    /\ \A i \in Channels : Len(window[i]) = config.window

\* the whole filter periods that pass before the time since the last
\* detection goes around 2^32 ms
StuckPeriodsLeft ==
    (Half - 1 - U32Sub(now, monitor.lastSignalMs)[1]) \div StuckPeriodHalves

\* the system at rest is left to itself for all the whole filter periods
\* that remain before the time since the last detection goes around 2^32:
\* that many times StuckPeriodTicks iterations of loop(), each of which
\* finds the state PARKED, the pan at home and the channel saturated, as one
\* step
StuckIdle ==
    /\ StuckAtRest
    /\ StuckPeriodsLeft > 0
    /\ ticks + StuckPeriodsLeft * StuckPeriodTicks <= MaxStuckTicks
    /\ LET n == StuckPeriodsLeft
           ms == <<n * StuckPeriodHalves, 0>>
       IN  /\ now' = U32Add(now, ms)
           /\ ticks' = ticks + n * StuckPeriodTicks
           /\ monCalls' = monCalls + n * StuckPeriodTicks
           /\ ledCall' = [ledCall EXCEPT !.calls = @ + n * StuckPeriodTicks,
                                         !.sinceBlink = U32Add(@, ms),
                                         !.sinceChange = U32Add(@, ms)]
    /\ UNCHANGED <<panVars, monitor, monIn, monPre, reading, senVars,
                   tiltVars, trkVars, sweepDirectionCW, calls, panPre,
                   resetPre, trueDeg, beacon>>

\* one iteration of loop(): sensors.update() and getFiltered() on the stuck
\* channel, the same channel in every tick, then the rest of the iteration
StuckTick ==
    /\ ticks < MaxStuckTicks
    /\ ~(StuckAtRest /\ StuckPeriodsLeft > 0)
    /\ \E c \in Channels :
        /\ ticks = 0 \/ raw = StuckSample(c)
        /\ Sample(StuckSample(c))
    /\ \E r \in {getFiltered(filters')} : Iteration(r, LOOP_PERIOD_MS)
    /\ UNCHANGED <<direction, config, phase, beacon>>

StuckNext ==
    \/ StuckTick
    \/ StuckIdle

\* a step that counts iterations, enabled when StuckNext is: every step of
\* StuckNext is one
StuckTickTaken ==
    IF StuckAtRest /\ StuckPeriodsLeft > 0
    THEN /\ ticks + StuckPeriodsLeft * StuckPeriodTicks <= MaxStuckTicks
         /\ ticks' = ticks + StuckPeriodsLeft * StuckPeriodTicks
    ELSE /\ ticks < MaxStuckTicks
         /\ ticks' = ticks + 1

\* the Arduino core calls loop() again and again: an iteration that can be
\* made is made
StuckSpec == Init /\ [][StuckNext]_vars /\ WF_ticks(StuckTickTaken)

\* ------------------------------------------------------------------------
\* loop() on time, tick after tick, while the beacon is above or below the
\* turret: the tracking routine requests a tilt step in every tick
\* ------------------------------------------------------------------------

\* the readings that make computeTiltDelta return a step
NudgeReadings ==
    {[NoReading EXCEPT !.top = "ACTIVE"],
     [NoReading EXCEPT !.bottom = "ACTIVE"]}

\* largest number of loop() iterations in a run of NudgeSpec
MaxNudgeTicks == 26

\* a tick with the beacon above or below
NudgeTick ==
    /\ ticks < MaxNudgeTicks
    /\ \E r \in NudgeReadings : Tick(r, LOOP_PERIOD_MS)
    /\ UNCHANGED beacon

NudgeNext == NudgeTick

NudgeSpec == Init /\ [][NudgeNext]_vars

\* ------------------------------------------------------------------------
\* Claims about PanController, checked under PanSpec
\* ------------------------------------------------------------------------

C_ClampedArg == IF panArg > 100 THEN 100 ELSE IF panArg < -100 THEN -100 ELSE panArg

\* C2: soft limit.  After setSpeed(v) at position >= +limit, v > 0 is stored
\* as 0 and v <= -PAN_MIN_SPEED is stored as v clamped to -1; symmetrically
\* at position <= -limit.
C2_SoftLimit ==
    panOp = "setSpeed" =>
        /\ (pan.pos >= PAN_LIMIT_DEG * PosScale /\ panArg > 0) => pan.speed = 0
        /\ (pan.pos >= PAN_LIMIT_DEG * PosScale /\ panArg <= -PAN_MIN_SPEED)
                => pan.speed = C_ClampedArg
        /\ (pan.pos <= -(PAN_LIMIT_DEG * PosScale) /\ panArg < 0) => pan.speed = 0
        /\ (pan.pos <= -(PAN_LIMIT_DEG * PosScale) /\ panArg >= PAN_MIN_SPEED)
                => pan.speed = C_ClampedArg

\* at the positive limit an outward command was zeroed
C2_Witness ==
    /\ panOp = "setSpeed"
    /\ pan.pos = PAN_LIMIT_DEG * PosScale
    /\ panArg = 80
    /\ pan.speed = 0

\* C3: dead zone.  After setSpeed(v) with |v| < PAN_MIN_SPEED the stored
\* speed is 0 and the actuator signal is PAN_STOP_US, at every position;
\* with |v| >= PAN_MIN_SPEED strictly inside the limits the stored speed is
\* v clamped to [-1, 1].
C3_DeadZone ==
    panOp = "setSpeed" =>
        /\ (panArg > -PAN_MIN_SPEED /\ panArg < PAN_MIN_SPEED)
                => (pan.speed = 0 /\ pan.us = PAN_STOP_US)
        /\ ( /\ (panArg <= -PAN_MIN_SPEED \/ panArg >= PAN_MIN_SPEED)
             /\ pan.pos > -(PAN_LIMIT_DEG * PosScale)
             /\ pan.pos < PAN_LIMIT_DEG * PosScale )
                => pan.speed = C_ClampedArg

\* a non-zero command inside the dead zone was suppressed away from home
C3_Witness ==
    /\ panOp = "setSpeed"
    /\ panArg = 14
    /\ pan.pos # 0
    /\ pan.speed = 0
    /\ pan.us = PAN_STOP_US

\* ------------------------------------------------------------------------
\* Claims about SignalMonitor, checked under MonSpec
\* ------------------------------------------------------------------------

\* now - lastSignalMs_ as the last update() call computed it
C_Elapsed == U32Sub(now, monPre.lastSignalMs)

\* C4: update(true) sets the state to TRACKING and the last-detection time
\* to now on that same call, from every prior state and whatever the time
\* elapsed since the previous detection.
C4_DetectionTracks ==
    (monCalls > 0 /\ monIn) =>
        /\ monitor.state = "TRACKING"
        /\ monitor.lastSignalMs = now

\* a detection while PARKED
C4_Witness ==
    /\ monCalls > 0
    /\ monIn
    /\ monPre.state = "PARKED"
    /\ monitor.state = "TRACKING"
    /\ monitor.lastSignalMs = now

\* C5: update(false) with elapsed >= SIGNAL_LOSS_PARK_MS leaves the state
\* PARKED; with SIGNAL_LOSS_SEARCH_MS <= elapsed < SIGNAL_LOSS_PARK_MS it
\* leaves it SEARCHING; both thresholds are inclusive.
C5_LossThresholds ==
    (monCalls > 0 /\ ~monIn) =>
        /\ ~U32Less(C_Elapsed, 15000) => monitor.state = "PARKED"
        /\ (~U32Less(C_Elapsed, 3000) /\ U32Less(C_Elapsed, 15000))
                => monitor.state = "SEARCHING"

\* one update with a large time jump goes from TRACKING straight to PARKED
C5_Witness ==
    /\ monCalls > 0
    /\ ~monIn
    /\ monPre.state = "TRACKING"
    /\ monitor.state = "PARKED"

\* C6: update(false) with elapsed < SIGNAL_LOSS_SEARCH_MS, inside the
\* holdoff or between the holdoff and the search threshold, leaves the state
\* and the last-detection time unchanged; so a dropout shorter than the
\* holdoff leaves a TRACKING monitor TRACKING.
C6_ShortLossAbsorbed ==
    (monCalls > 0 /\ ~monIn /\ U32Less(C_Elapsed, 3000)) =>
        /\ monitor.state = monPre.state
        /\ monitor.lastSignalMs = monPre.lastSignalMs
        /\ (monPre.state = "TRACKING" /\ U32Less(C_Elapsed, 500))
                => monitor.state = "TRACKING"

\* no signal, past the holdoff and one millisecond short of the search
\* threshold: still TRACKING
C6_Witness ==
    /\ monCalls > 0
    /\ ~monIn
    /\ C_Elapsed = U32(2999)
    /\ monitor.state = "TRACKING"
    /\ monitor.lastSignalMs = monPre.lastSignalMs

\* C7: after every update(), stateChanged() is true exactly when the state
\* differs from the state after the previous update (the initial TRACKING
\* for the first), and getPreviousState() is that earlier state.
C7_TransitionDetection ==
    monCalls > 0 =>
        /\ stateChanged(monitor) <=> (monitor.state # monPre.state)
        /\ monitor.prevState = monPre.state

\* a transition followed by an update that changes nothing
C7_Witness ==
    /\ monCalls > 1
    /\ monPre.state = "SEARCHING"
    /\ monPre.prevState = "TRACKING"
    /\ monitor.state = "SEARCHING"
    /\ ~stateChanged(monitor)

\* ------------------------------------------------------------------------
\* Claims about SensorArray, checked under SensorSpec
\* ------------------------------------------------------------------------

\* the channel of a reading that getFiltered() fills from filters_[i]
C_Channel(r, i) ==
    CASE i = 0 -> r.top [] i = 1 -> r.bottom [] i = 2 -> r.left [] OTHER -> r.right

\* number of active samples in a window
C_CountActive(w) == Cardinality({k \in 1..Len(w) : w[k]})

\* C8: a channel whose saturation flag is clear reads ACTIVE iff at least
\* SENSOR_FILTER_THRESHOLD (6) of the samples in the window of the last
\* SENSOR_FILTER_WINDOW (8) are active, and INACTIVE otherwise; with fewer
\* than 6 samples pushed since init() it reads INACTIVE.
C8_MajorityVote ==
    \A i \in Channels :
        /\ ~filters[i].saturated =>
               C_Channel(reading, i) =
                   IF C_CountActive(window[i]) >= 6 THEN "ACTIVE" ELSE "INACTIVE"
        /\ Len(window[i]) < 6 => C_Channel(reading, i) = "INACTIVE"

\* a full window with exactly 6 of 8 active reads ACTIVE while another
\* channel, with fewer, reads INACTIVE
C8_Witness ==
    /\ Len(window[0]) = 8
    /\ C_CountActive(window[0]) = 6
    /\ ~window[0][8]
    /\ reading.top = "ACTIVE"
    /\ reading.bottom = "INACTIVE"

C10_AnyActive ==
    LET someActive == \E i \in Channels : C_Channel(reading, i) = "ACTIVE"
    IN  /\ anyActive(reading) <=> someActive
        /\ noneActive(reading) <=> ~someActive
        /\ (monCalls > 0 /\ ~someActive) => ~monIn
        /\ (monCalls > 0 /\ someActive) => monIn

\* a reading with saturated channels only went to the monitor as "no signal"
C10_Witness ==
    /\ monCalls > 0
    /\ reading.top = "SATURATED"
    /\ reading.right = "SATURATED"
    /\ reading.bottom = "INACTIVE"
    /\ reading.left = "INACTIVE"
    /\ ~monIn

\* ------------------------------------------------------------------------
\* Claims about TrackingEngine, checked under TrackSpec
\* ------------------------------------------------------------------------

\* exactly one of the two horizontal channels of r is ACTIVE
C_OneSided(r) == (r.left = "ACTIVE") # (r.right = "ACTIVE")

\* C11: when an update call has returned whose reading has both horizontal
\* channels ACTIVE or neither ACTIVE, the speed it passed to setSpeed is 0
\* and the stored pan speed is 0, whatever the approach memory and the pan
\* position were.
C11_HorizontalDeadBand ==
    (trkOp = "update" /\ ~C_OneSided(reading))
        => (trkCmd = 0 /\ pan.speed = 0 /\ pan.us = PAN_STOP_US)

\* C11 happens: both horizontal channels ACTIVE, away from home, right after
\* the other side was tracked
C11_Witness ==
    /\ trkOp = "update"
    /\ reading.left = "ACTIVE" /\ reading.right = "ACTIVE"
    /\ pan.pos # 0
    /\ trkCalls = 2
    /\ pan.speed = 0

\* C12: when an update call has returned whose reading has both vertical
\* channels ACTIVE or neither ACTIVE, it issued no nudge: the tilt angle and
\* the time stamp of the last accepted step are what they were before.
C12_VerticalDeadBand ==
    (trkOp = "update" /\ (reading.top = "ACTIVE") = (reading.bottom = "ACTIVE"))
        => (trkNudge = "none" /\ tilt = trkPre)

\* C12 happens: both vertical channels ACTIVE at a time when a step would
\* have been accepted, after an earlier step was taken
C12_Witness ==
    /\ trkOp = "update"
    /\ reading.top = "ACTIVE" /\ reading.bottom = "ACTIVE"
    /\ tilt.angle = TILT_STEP_DEG
    /\ ~U32Less(U32Sub(now, tilt.lastStepMs), TILT_HOLDOFF_MS)
    /\ trkNudge = "none"

\* C13: when an update call has returned whose reading has exactly one
\* horizontal channel ACTIVE, the speed it passed to setSpeed is strictly
\* negative for left, strictly positive for right, and its magnitude is
\* TRACK_PAN_SPEED_SLOW or TRACK_PAN_SPEED_FAST.
C13_PanCommand ==
    (trkOp = "update" /\ C_OneSided(reading))
        => /\ reading.left = "ACTIVE" => trkCmd < 0
           /\ reading.right = "ACTIVE" => trkCmd > 0
           /\ Abs(trkCmd) \in {TRACK_PAN_SPEED_SLOW, TRACK_PAN_SPEED_FAST}

\* C13 happens: left ACTIVE beside a saturated right channel, at full speed
C13_Witness ==
    /\ trkOp = "update"
    /\ reading.left = "ACTIVE" /\ reading.right = "SATURATED"
    /\ trkCmd = -TRACK_PAN_SPEED_FAST

\* the channel opposite to the one ACTIVE channel of the last reading was
\* ACTIVE in some update call less than APPROACH_MEMORY_MS before the last
\* one
C_OppositeRecent ==
    IF reading.left = "ACTIVE"
    THEN trkEver.right
         /\ U32Less(U32Sub(now, trkEver.rightMs), APPROACH_MEMORY_MS)
    ELSE trkEver.left
         /\ U32Less(U32Sub(now, trkEver.leftMs), APPROACH_MEMORY_MS)

\* C14: when an update call has returned whose reading has exactly one
\* horizontal channel ACTIVE, the magnitude of the speed it passed is
\* TRACK_PAN_SPEED_SLOW if the opposite channel was ACTIVE in some update
\* call less than APPROACH_MEMORY_MS earlier, and TRACK_PAN_SPEED_FAST
\* otherwise, also when the opposite channel has never been ACTIVE since
\* init().
C14_ApproachMemory ==
    (trkOp = "update" /\ C_OneSided(reading))
        => Abs(trkCmd) = IF C_OppositeRecent THEN TRACK_PAN_SPEED_SLOW
                         ELSE TRACK_PAN_SPEED_FAST

\* C14 fails here: within APPROACH_MEMORY_MS of a clock value of 0 the
\* command is slow although the opposite channel has never been ACTIVE
C14_Witness ==
    /\ trkOp = "update"
    /\ reading.right = "ACTIVE" /\ reading.left # "ACTIVE"
    /\ ~trkEver.left
    /\ trkCmd = TRACK_PAN_SPEED_SLOW

\* ------------------------------------------------------------------------
\* Claims about TiltController, checked under TiltSpec
\* ------------------------------------------------------------------------

\* x limited to [lo, hi]
C_Clamp(x, lo, hi) == IF x < lo THEN lo ELSE IF x > hi THEN hi ELSE x

\* C15: when a nudge call has returned that followed an accepted nudge with
\* no setAngle in between: if it was made less than TILT_HOLDOFF_MS after the
\* accepted one it returned false and left the angle and the time stamp of
\* the last accepted step unchanged; if it was made TILT_HOLDOFF_MS or more
\* after it (exactly TILT_HOLDOFF_MS included) it returned true and the angle
\* is the old angle plus the delta limited to +-TILT_STEP_DEG, limited to
\* [TILT_MIN_DEG, TILT_MAX_DEG].  Time is measured on the 32-bit clock.
C15_NudgeHoldoff ==
    (tiltOp = "nudge" /\ tiltPrior = "nudge")
        => IF U32Less(U32Sub(now, tiltPre.lastStepMs), TILT_HOLDOFF_MS)
           THEN ~tiltRet /\ tilt = tiltPre
           ELSE /\ tiltRet
                /\ tilt.angle =
                       C_Clamp(tiltPre.angle
                                   + C_Clamp(tiltArg, -TILT_STEP_DEG, TILT_STEP_DEG),
                               TILT_MIN_DEG, TILT_MAX_DEG)

\* C15 happens: a second nudge exactly TILT_HOLDOFF_MS after an accepted
\* one, accepted, with a delta beyond the step
C15_Witness ==
    /\ tiltOp = "nudge" /\ tiltPrior = "nudge"
    /\ U32Sub(now, tiltPre.lastStepMs) = U32(TILT_HOLDOFF_MS)
    /\ tiltArg = 127
    /\ tiltRet
    /\ tilt.angle = tiltPre.angle + TILT_STEP_DEG

\* C16: after init() and any sequence of setAngle, nudge, parkHome and
\* goScanPosition calls at any clock values the tilt angle is within
\* [TILT_MIN_DEG, TILT_MAX_DEG]; a setAngle(target) that has returned has
\* stored exactly target limited to that range, however long ago the last
\* step was, and has left the time stamp of the last step alone.
C16_TiltRange ==
    /\ tilt.angle >= TILT_MIN_DEG /\ tilt.angle <= TILT_MAX_DEG
    /\ tiltOp = "setAngle"
           => /\ tilt.angle = C_Clamp(tiltArg, TILT_MIN_DEG, TILT_MAX_DEG)
              /\ tilt.lastStepMs = tiltPre.lastStepMs

\* C16 happens: setAngle with the largest int16_t, in the same millisecond
\* as an accepted step
C16_Witness ==
    /\ tiltOp = "setAngle" /\ tiltArg = 32767
    /\ tiltPrior = "nudge"
    /\ now = tilt.lastStepMs
    /\ tilt.angle = TILT_MAX_DEG

\* ------------------------------------------------------------------------
\* Claims about loop(), checked under LoopSpec
\* ------------------------------------------------------------------------

\* the places of call c in the call sequence cs
C_Places(cs, c) == { i \in DOMAIN cs : cs[i] = c }

\* call c was made in the last iteration
C_Called(c) == C_Places(calls, c) # {}

\* the calls by which a routine of loop() commands the pan, and all calls
\* that write the pan speed or the position estimate before the integration
C_RoutinePanCalls == {"tracker.update", "pan.setSpeed", "pan.parkHome"}
C_PanWrites == C_RoutinePanCalls \cup {"tracker.halt", "pan.resetPosition"}

\* C17: in every iteration of loop(), in each monitor state and on the
\* transition ticks, updatePosition is called exactly once, after the routine
\* of the state has issued its pan command and before the status LED is
\* refreshed: it integrates the speed that command left, once, over
\* LOOP_PERIOD_MS.
C17_IntegratesOncePerTick ==
    ticks > 0 =>
        /\ Cardinality(C_Places(calls, "pan.updatePosition")) = 1
        /\ \A u \in C_Places(calls, "pan.updatePosition") :
            /\ \E j \in 1..(u - 1) : calls[j] \in C_RoutinePanCalls
            /\ \A j \in DOMAIN calls :
                /\ calls[j] \in C_PanWrites => j < u
                /\ calls[j] = "monitor.updateStatusLED" => j > u
        /\ C_Called("monitor.updateStatusLED")
        /\ pan.speed = panPre.speed
        /\ pan.pos =
               C_Clamp(panPre.pos
                           + (panPre.speed * LOOP_PERIOD_MS * PAN_DEG_PER_SEC
                                  * PosScale) \div (SpeedScale * 1000),
                       -PanLimit, PanLimit)

\* C17 happens: the tick that enters SEARCHING halts the tracker, commands
\* the sweep and then integrates it
C17_Witness ==
    /\ monitor.state = "SEARCHING" /\ stateChanged(monitor)
    /\ calls = <<"monitor.update", "onEnterSearching", "tracker.halt",
                 "sweepDirectionCW", "tilt.goScanPosition", "pan.setSpeed",
                 "pan.updatePosition", "monitor.updateStatusLED">>
    /\ panPre.speed # 0
    /\ pan.pos # panPre.pos

\* C18: in every iteration of loop() exactly one of the tracking routine,
\* the sweep routine and the park routine runs, and it is the one of the
\* state that monitor.update produced in this iteration from this
\* iteration's reading.
C18_OneRoutinePerTick ==
    ticks > 0 =>
        /\ monIn = anyActive(reading)
        /\ monitor.state = MonUpdate(monPre, anyActive(reading), now).state
        /\ C_Called("tracker.update") <=> monitor.state = "TRACKING"
        /\ (C_Called("tilt.goScanPosition") /\ C_Called("pan.setSpeed"))
               <=> monitor.state = "SEARCHING"
        /\ (C_Called("tilt.goScanPosition") \/ C_Called("pan.setSpeed"))
               <=> monitor.state = "SEARCHING"
        /\ (C_Called("pan.parkHome") /\ C_Called("tilt.parkHome"))
               <=> monitor.state = "PARKED"
        /\ (C_Called("pan.parkHome") \/ C_Called("tilt.parkHome"))
               <=> monitor.state = "PARKED"

\* C18 happens: a detection while PARKED runs the tracking routine and not
\* the park routine
C18_Witness ==
    /\ ticks > 0
    /\ monPre.state = "PARKED" /\ monIn
    /\ C_Called("tracker.update")
    /\ ~C_Called("pan.parkHome")

\* ------------------------------------------------------------------------
\* Claim about the homing before a reset, checked under BeaconSpec
\* ------------------------------------------------------------------------

\* C19: whenever loop() calls resetPosition (on PARKED -> TRACKING), the
\* parkHome call before it returned true, that is, homing was confirmed.
C19_ResetAfterHoming ==
    C_Called("pan.resetPosition") => resetPre.ret

\* C19 fails here: the beacon comes back while the pan is still driving
\* home, and the estimate is zeroed more than HOME_TOLERANCE from home
C19_Witness ==
    /\ C_Called("pan.resetPosition")
    /\ ~resetPre.ret
    /\ Abs(resetPre.pos) >= HomeTol
    /\ pan.pos # resetPre.pos

\* ------------------------------------------------------------------------
\* Claim about the dead-reckoning drift, checked under DriftSpec
\* ------------------------------------------------------------------------

\* 1.2 degrees, the travel of one tick at full speed, in position units
C_DriftBound == (12 * PosScale) \div 10

\* C20: over any run of ticks without resetPosition the distance between the
\* ideal actuator and the position estimate never exceeds the travel of one
\* tick at full speed, also when the hard clamp is hit repeatedly.
C20_DriftBounded ==
    Abs(trueDeg - pan.pos) <= C_DriftBound

\* C20 fails here: the estimate sits on the limit while the ideal actuator
\* is more than one tick of travel beyond it
C20_Witness ==
    /\ pan.pos = PanLimit
    /\ trueDeg - pan.pos > C_DriftBound
    /\ panOp = "updatePosition"

\* ------------------------------------------------------------------------
\* Claims about PanController::parkHome, checked under PanSpec
\* ------------------------------------------------------------------------

\* C21: parkHome() at an estimate of magnitude at least HOME_TOLERANCE (5
\* degrees) stores a speed of magnitude TRACK_PAN_SPEED_SLOW whose sign is
\* opposite to the sign of the position, also on either soft limit, and
\* returns false; at a smaller magnitude it stores speed 0 with the stop
\* pulse and returns true.  It never changes the position estimate.
C21_ParkHome ==
    [][panOp' = "parkHome" =>
         /\ pan'.pos = pan.pos
         /\ IF Abs(pan.pos) >= HOME_TOLERANCE * PosScale
            THEN /\ pan'.speed = IF pan.pos > 0 THEN -TRACK_PAN_SPEED_SLOW
                                                ELSE TRACK_PAN_SPEED_SLOW
                 /\ ~panRet'
            ELSE /\ pan'.speed = 0
                 /\ pan'.us = PAN_STOP_US
                 /\ panRet']_vars

\* parkHome() was called on the counter-clockwise limit and commands the
\* homing speed there
C21_Witness ==
    /\ panOp = "parkHome"
    /\ pan.pos = PAN_LIMIT_DEG * PosScale
    /\ pan.speed = -TRACK_PAN_SPEED_SLOW
    /\ ~panRet

\* ------------------------------------------------------------------------
\* Claims about the entry actions of loop(), checked under LoopSpec
\* ------------------------------------------------------------------------

\* the entry action of a monitor state
C_EntryAction(st) ==
    CASE st = "TRACKING" -> "onEnterTracking"
      [] st = "SEARCHING" -> "onEnterSearching"
      [] OTHER -> "onEnterParked"

\* C22: in every tick the entry action of state S runs exactly once if the
\* monitor state after this tick's update() is S and the state after the
\* previous tick's update() was different, and does not run otherwise; no
\* entry action runs in a tick without a state change.
C22_EntryActionOnChange ==
    ticks > 0 =>
        \A st \in {"TRACKING", "SEARCHING", "PARKED"} :
            Cardinality(C_Places(calls, C_EntryAction(st))) =
                IF monitor.state = st /\ monPre.state # st THEN 1 ELSE 0

\* the tick that enters PARKED from SEARCHING ran onEnterParked, after an
\* earlier tick had entered SEARCHING
C22_Witness ==
    /\ ticks > 1
    /\ monPre.state = "SEARCHING"
    /\ monitor.state = "PARKED"
    /\ C_Called("onEnterParked")
    /\ ~C_Called("onEnterSearching")

\* ------------------------------------------------------------------------
\* Claims about the saturation flag and the ring buffer of SensorArray,
\* checked under SensorSpec
\* ------------------------------------------------------------------------

\* C23: after every update(), the saturated flag of a channel is true
\* exactly when the current run of consecutive active raw samples, times
\* LOOP_PERIOD_MS, has reached SENSOR_SATURATED_MS; a shorter run never
\* sets it, and the tick of the first inactive sample clears it.
C23_SaturatedIffLongRun ==
    \A i \in Channels :
        /\ filters[i].saturated <=>
               rawRun[i] * LOOP_PERIOD_MS >= SENSOR_SATURATED_MS
        /\ ~raw[i] => (~filters[i].saturated /\ filters[i].lowRunMs = 0)

\* the tick on which the run reaches SENSOR_SATURATED_MS sets the flag of
\* the stuck channel, while a channel that was inactive on it stays clear
C23_Witness ==
    /\ rawRun[0] * LOOP_PERIOD_MS = SENSOR_SATURATED_MS
    /\ filters[0].lowRunMs = SENSOR_SATURATED_MS
    /\ filters[0].saturated
    /\ ~raw[1]
    /\ ~filters[1].saturated

\* ------------------------------------------------------------------------
\* Claims about the tilt step and halt() of TrackingEngine, checked under
\* TrackSpec
\* ------------------------------------------------------------------------

\* exactly one of the vertical channels of r is ACTIVE
C_OneVertical(r) == (r.top = "ACTIVE") # (r.bottom = "ACTIVE")

\* C24: an update() on a reading with exactly one vertical channel ACTIVE
\* calls nudge exactly once, with +TILT_STEP_DEG when it is the top channel
\* and -TILT_STEP_DEG when it is the bottom channel; when that nudge is
\* rejected there is no second attempt and the tilt angle is unchanged.
C24_OneNudgePerUpdate ==
    [][(trkOp' = "update" /\ C_OneVertical(reading')) =>
         /\ tiltCalls' = tiltCalls + 1
         /\ tiltOp' = "nudge"
         /\ tiltArg' = IF reading'.top = "ACTIVE" THEN TILT_STEP_DEG
                                                  ELSE -TILT_STEP_DEG
         /\ tiltRet' = TiltNudgeAccepted(tilt, now')
         /\ ~tiltRet' => tilt' = tilt]_vars

\* an accepted step up is followed, inside the holdoff, by an update with
\* the bottom channel ACTIVE whose nudge(-TILT_STEP_DEG) is rejected
C24_Witness ==
    /\ trkOp = "update"
    /\ reading.bottom = "ACTIVE"
    /\ reading.top # "ACTIVE"
    /\ tiltCalls = 2
    /\ tiltArg = -TILT_STEP_DEG
    /\ trkNudge = "rejected"
    /\ tilt.angle = TILT_STEP_DEG
    /\ tilt = tiltPre

\* C26: halt() sets the stored pan speed to 0 with the actuator at the stop
\* pulse, at any position, and leaves the tilt angle, the time stamp of the
\* last tilt step, the pan position estimate and the approach memory as
\* they were.
C26_HaltStopsPanOnly ==
    [][trkOp' = "halt" =>
         /\ pan'.speed = 0
         /\ pan'.us = PAN_STOP_US
         /\ pan'.pos = pan.pos
         /\ tilt' = tilt
         /\ tracker' = tracker]_vars

\* halt() after the pan has moved under a tracking command, a tilt step
\* was taken and the right channel is remembered
C26_Witness ==
    /\ trkOp = "halt"
    /\ panOp = "stop"
    /\ trkCmd # 0
    /\ pan.speed = 0
    /\ pan.us = PAN_STOP_US
    /\ pan.pos # 0
    /\ tilt.angle # TILT_HOME_DEG
    /\ tracker.lastRightActiveMs # U32(0)

\* ------------------------------------------------------------------------
\* Claims about SignalMonitor::updateStatusLED, checked under LedSpec
\* ------------------------------------------------------------------------

\* the level of the state the last updateStatusLED call acted on: HIGH for
\* TRACKING, LOW for PARKED
C_SolidLevels ==
    /\ ledCall.state = "TRACKING" => monitor.pin = "HIGH"
    /\ ledCall.state = "PARKED" => monitor.pin = "LOW"

\* C25 (as stated): after each updateStatusLED() the output is HIGH in
\* TRACKING and LOW in PARKED, and a call in SEARCHING changes the level
\* only when at least 500 ms have passed since the level changed last.
C25_LevelChangeSpacing ==
    ledCall.calls > 0 =>
        /\ C_SolidLevels
        /\ ( /\ ledCall.state = "SEARCHING"
             /\ monitor.pin # ledCall.prePin
             /\ ledCall.hadChange )
                => ~U32Less(ledCall.sinceChange, 500)

\* C25 (amended): after each updateStatusLED() the output is HIGH in
\* TRACKING and LOW in PARKED; a call in SEARCHING flips ledState_ exactly
\* when millis() - lastBlinkMs_ >= 500 on the 32-bit clock and writes the
\* level of ledState_, so a call in SEARCHING that follows a call in
\* SEARCHING changes the level only when at least 500 ms have passed since
\* the last flip, however often it is called.
C25_BlinkTiming ==
    ledCall.calls > 0 =>
        /\ C_SolidLevels
        /\ ledCall.state = "SEARCHING" =>
               /\ monitor.pin = IF monitor.ledState THEN "HIGH" ELSE "LOW"
               /\ ledCall.toggled <=> ~U32Less(ledCall.sinceBlink, 500)
               /\ (ledCall.preState = "SEARCHING"
                      /\ monitor.pin # ledCall.prePin) => ledCall.toggled
        /\ ledCall.state # "SEARCHING" => ~ledCall.toggled

\* a second call in the tick in which a call in SEARCHING had flipped the
\* level to LOW left the level alone
C25_Witness ==
    /\ ledCall.calls > 1
    /\ ledCall.state = "SEARCHING"
    /\ ledCall.preState = "SEARCHING"
    /\ ledCall.sinceBlink = U32(0)
    /\ ~ledCall.toggled
    /\ monitor.pin = ledCall.prePin
    /\ monitor.pin = "LOW"

\* ------------------------------------------------------------------------
\* Claims about SensorArray::getDirection, checked under DirectionSpec
\* ------------------------------------------------------------------------

\* the bias of a pair of channels: "first" when only the first is ACTIVE,
\* "second" when only the second is, "balanced" otherwise
C_Bias(first, second) ==
    IF first = "ACTIVE" /\ second # "ACTIVE" THEN "first"
    ELSE IF second = "ACTIVE" /\ first # "ACTIVE" THEN "second"
    ELSE "balanced"

\* the compass value of a horizontal bias (left first) and a vertical bias
\* (top first)
C_Compass(hb, vb) ==
    CASE hb = "first" /\ vb = "first" -> "UP_LEFT"
      [] hb = "first" /\ vb = "balanced" -> "LEFT"
      [] hb = "first" /\ vb = "second" -> "DOWN_LEFT"
      [] hb = "second" /\ vb = "first" -> "UP_RIGHT"
      [] hb = "second" /\ vb = "balanced" -> "RIGHT"
      [] hb = "second" /\ vb = "second" -> "DOWN_RIGHT"
      [] hb = "balanced" /\ vb = "first" -> "UP"
      [] hb = "balanced" /\ vb = "second" -> "DOWN"
      [] OTHER -> "CENTER"

\* C27: getDirection() returns NONE iff no channel is ACTIVE; otherwise it
\* returns the compass value whose horizontal part is LEFT iff left is
\* ACTIVE and right is not, RIGHT iff right is ACTIVE and left is not, and
\* whose vertical part is UP or DOWN likewise from top and bottom, and
\* CENTER when some channel is ACTIVE and both axes are balanced; SATURATED
\* counts as not ACTIVE.
C27_Direction ==
    direction # "unset" =>
        LET r == getFiltered(filters)
            none == \A c \in {r.top, r.bottom, r.left, r.right} : c # "ACTIVE"
        IN  /\ direction = "NONE" <=> none
            /\ ~none => direction = C_Compass(C_Bias(r.left, r.right),
                                              C_Bias(r.top, r.bottom))

\* left ACTIVE with right SATURATED is a bias to the left, and top and
\* bottom both ACTIVE are balanced
C27_Witness ==
    /\ direction = "LEFT"
    /\ reading.left = "ACTIVE"
    /\ reading.right = "SATURATED"
    /\ reading.top = "ACTIVE"
    /\ reading.bottom = "ACTIVE"

\* ------------------------------------------------------------------------
\* Claims about the filter configuration, checked under ConfigSpec
\* ------------------------------------------------------------------------

\* C28: a filter configuration whose active threshold is greater than the
\* window size is rejected at initialization: no build with such a
\* configuration gets through SensorArray::init() into the running system.
C28_InvalidConfigRejected ==
    phase = "running" => config.threshold <= config.window

\* a running system whose threshold is above its window: a channel whose
\* whole window is active still reads INACTIVE
C28_Witness ==
    /\ phase = "running"
    /\ config.threshold > config.window
    /\ Len(window[0]) = config.window
    /\ C_CountActive(window[0]) = config.window
    /\ reading.top = "INACTIVE"

\* ------------------------------------------------------------------------
\* Claims about parking, checked under ParkSpec
\* ------------------------------------------------------------------------

\* C29: while the monitor stays PARKED and loop() keeps running, from any
\* estimate in [-PAN_LIMIT_DEG, PAN_LIMIT_DEG] parkHome() eventually
\* returns true, and in every later PARKED tick it returns true again, the
\* stored speed is 0 and the position estimate keeps its value.
C29_ParkTerminates ==
    /\ <>(panRet /\ C_Called("pan.parkHome"))
    /\ [][(panRet /\ C_Called("pan.parkHome") /\ monitor'.state = "PARKED") =>
             /\ panRet'
             /\ pan'.speed = 0
             /\ pan'.us = PAN_STOP_US
             /\ pan'.pos = pan.pos]_vars

\* the pan has come home from the counter-clockwise limit and stands
\* inside the tolerance, not on the centre
C29_Witness ==
    /\ monitor.state = "PARKED"
    /\ C_Called("pan.parkHome")
    /\ panRet
    /\ pan.speed = 0
    /\ pan.pos > 0
    /\ trueDeg = pan.pos
    /\ ticks > (PanLimit - HomeTol) \div
                    PanDelta(TRACK_PAN_SPEED_SLOW, LOOP_PERIOD_MS)

\* C30: after any number n of pushSample calls on a channel since init(),
\* the number of set bits popcount counts equals the number of active
\* samples among the min(n, SENSOR_FILTER_WINDOW) most recent ones, the
\* j-th newest of them being the bit j slots before the write index, and
\* the write index is in 0..SENSOR_FILTER_WINDOW-1.
C30_RingBufferIsFifo ==
    \A i \in Channels :
        LET w == window[i]
            f == filters[i]
        IN  /\ Len(w) <= SENSOR_FILTER_WINDOW
            /\ f.index \in 0..(SENSOR_FILTER_WINDOW - 1)
            /\ popcount(f.buffer) = C_CountActive(w)
            /\ \A j \in 1..Len(w) :
                   (Bit(f.buffer, (f.index + SENSOR_FILTER_WINDOW - j)
                                     % SENSOR_FILTER_WINDOW) = 1)
                       <=> w[Len(w) + 1 - j]

\* the write index has wrapped and stands inside the buffer, over a window
\* of active and inactive samples
C30_Witness ==
    /\ Len(window[0]) = SENSOR_FILTER_WINDOW
    /\ filters[0].index = 3
    /\ window[0][SENSOR_FILTER_WINDOW]
    /\ ~window[0][1]
    /\ C_CountActive(window[0]) = 5
    /\ popcount(filters[0].buffer) = 5

\* ------------------------------------------------------------------------
\* Claims about the sweep, checked under LoopSpec and SweepSpec
\* ------------------------------------------------------------------------

\* C31: on the tick that enters SEARCHING the first sweep command is
\* +SEARCH_SWEEP_SPEED if the position estimate is <= 0 and
\* -SEARCH_SWEEP_SPEED if it is > 0, and this command, not the stop that
\* halt() issued, is the speed that the tick's updatePosition integrates.
C31_FirstSweepCommand ==
    C_Called("onEnterSearching") =>
        /\ panPre.speed = IF panPre.pos <= 0 THEN SEARCH_SWEEP_SPEED
                          ELSE -SEARCH_SWEEP_SPEED
        /\ panPre.speed # 0
        /\ pan.pos = ClampPos(panPre.pos
                                  + PanDelta(panPre.speed, LOOP_PERIOD_MS))
        /\ panPre.pos < 0 => pan.pos > panPre.pos
        /\ panPre.pos > 0 => pan.pos < panPre.pos

\* C31 happens: SEARCHING is entered to the right of center and the tick
\* integrates the counter-clockwise sweep command
C31_Witness ==
    /\ C_Called("onEnterSearching")
    /\ panPre.pos > 0
    /\ panPre.speed = -SEARCH_SWEEP_SPEED
    /\ pan.pos = panPre.pos - PanDelta(SEARCH_SWEEP_SPEED, LOOP_PERIOD_MS)

\* two ticks of sweep travel, in position units (0.6 degrees)
C_SweepOvershoot == 2 * PanDelta(SEARCH_SWEEP_SPEED, LOOP_PERIOD_MS)

\* C32: during a SEARCHING period entered with the estimate within
\* +/-SEARCH_SWEEP_DEG, the estimate never exceeds SEARCH_SWEEP_DEG in
\* magnitude by more than two ticks of sweep travel, and it never reaches
\* +/-PAN_LIMIT_DEG.
C32_SweepBounded ==
    monitor.state = "SEARCHING" =>
        /\ Abs(pan.pos) <= SweepLimit + C_SweepOvershoot
        /\ Abs(panPre.pos) <= SweepLimit + C_SweepOvershoot
        /\ Abs(pan.pos) < PanLimit

\* C32 happens: the sweep is more than one tick of travel beyond the sweep
\* limit, on the tick after the one that detected the limit
C32_Witness ==
    /\ monitor.state = "SEARCHING"
    /\ ~sweepDirectionCW
    /\ panPre.pos >= SweepLimit
    /\ panPre.speed = SEARCH_SWEEP_SPEED
    /\ pan.pos > SweepLimit + PanDelta(SEARCH_SWEEP_SPEED, LOOP_PERIOD_MS)

\* ------------------------------------------------------------------------
\* Further claims about TiltController, checked under TiltSpec and NudgeSpec
\* ------------------------------------------------------------------------

\* the target of an absolute positioning call
C_TiltTarget ==
    IF tiltOp = "parkHome" THEN TILT_HOME_DEG
    ELSE IF tiltOp = "goScanPosition" THEN TILT_SCAN_DEG
    ELSE tiltArg

\* C33: setAngle, parkHome and goScanPosition take effect also when called
\* less than TILT_HOLDOFF_MS after an accepted nudge, and leave the time
\* stamp of the last accepted step unchanged: a nudge that follows is judged
\* against that earlier stamp.
C33_SetAngleOutsideHoldoff ==
    /\ tiltOp \in {"setAngle", "parkHome", "goScanPosition"}
           => /\ tilt.angle = C_Clamp(C_TiltTarget, TILT_MIN_DEG, TILT_MAX_DEG)
              /\ tilt.lastStepMs = tiltPre.lastStepMs
    /\ (tiltOp = "nudge" /\ tiltPrior = "setAngle")
           => (tiltRet <=> ~U32Less(U32Sub(now, tiltPre.lastStepMs),
                                    TILT_HOLDOFF_MS))

\* C33 happens: goScanPosition in the same millisecond as an accepted step
\* moves the tilt and keeps the stamp of that step
C33_Witness ==
    /\ tiltOp = "goScanPosition" /\ tiltPrior = "nudge"
    /\ tilt.lastStepMs = now /\ now # U32(0)
    /\ tilt.angle = TILT_SCAN_DEG
    /\ tiltPre.angle = TILT_HOME_DEG + TILT_STEP_DEG

\* ------------------------------------------------------------------------
\* Further claims about SignalMonitor, checked under MonSpec
\* ------------------------------------------------------------------------

\* how far a state is along TRACKING -> SEARCHING -> PARKED
C_LossRank(st) ==
    IF st = "TRACKING" THEN 0 ELSE IF st = "SEARCHING" THEN 1 ELSE 2

\* C34: an update(false) never moves the state back along TRACKING ->
\* SEARCHING -> PARKED, however long the signal has been absent, also when
\* the absence is longer than the wrap period of the millisecond counter.
C34_LossOnlyAdvances ==
    (monCalls > 0 /\ ~monIn)
        => C_LossRank(monitor.state) >= C_LossRank(monPre.state)

\* C34 fails here: the monitor is PARKED, the time since the last detection
\* has passed 2^32 ms and reads as a value between the search and the park
\* threshold, and update(false) moves the state to SEARCHING
C34_Witness ==
    /\ monCalls > 0 /\ ~monIn
    /\ monPre.state = "PARKED"
    /\ monitor.state = "SEARCHING"
    /\ ~U32Less(C_Elapsed, SIGNAL_LOSS_SEARCH_MS)
    /\ U32Less(C_Elapsed, SIGNAL_LOSS_PARK_MS)

\* SignalMonitor::update with the branch elapsed < SIGNAL_PRESENT_HOLDOFF_MS
\* removed
C_UpdateWithoutHoldoff(m, detected, t) ==
    LET m0 == [m EXCEPT !.prevState = m.state]
    IN  IF detected THEN MonDetected(m0, t)
        ELSE [m0 EXCEPT !.state = LossState(m0.state,
                                            U32Sub(t, m0.lastSignalMs))]

\* C35: the holdoff branch is observationally redundant.  From the same
\* monitor, every update() call leaves what the machine without the branch
\* leaves, so for every input trace and clock the two started together
\* produce the same sequence of (state, previousState).
C35_HoldoffRedundant ==
    monCalls > 0 =>
        /\ monitor = C_UpdateWithoutHoldoff(monPre, monIn, now)
        /\ monitor.state = C_UpdateWithoutHoldoff(monPre, monIn, now).state
        /\ monitor.prevState
               = C_UpdateWithoutHoldoff(monPre, monIn, now).prevState

\* C35 happens: update(false) takes the holdoff branch while PARKED, the
\* time since the last detection having passed 2^32 ms
C35_Witness ==
    /\ monCalls > 0 /\ ~monIn
    /\ U32Less(C_Elapsed, SIGNAL_PRESENT_HOLDOFF_MS)
    /\ C_Elapsed # U32(0)
    /\ monPre.state = "PARKED"
    /\ monitor.state = "PARKED"

\* ------------------------------------------------------------------------
\* Claim about the integration at a limit, checked under EdgeSpec
\* ------------------------------------------------------------------------

\* C36: whenever loop() calls updatePosition, the stored speed does not
\* point outward from a limit: not position >= +PAN_LIMIT_DEG with speed >
\* 0, and not position <= -PAN_LIMIT_DEG with speed < 0.
C36_NoOutwardSpeedAtLimit ==
    ticks > 0 =>
        /\ ~(panPre.pos >= PanLimit /\ panPre.speed > 0)
        /\ ~(panPre.pos <= -PanLimit /\ panPre.speed < 0)

\* C36 happens: the estimate is on the lower limit, the tracking routine
\* commands further to the left, and updatePosition integrates speed 0
C36_Witness ==
    /\ C_Called("tracker.update")
    /\ trkCmd = -TRACK_PAN_SPEED_FAST
    /\ panPre.pos = -PanLimit
    /\ panPre.speed = 0
    /\ pan.pos = -PanLimit

\* ------------------------------------------------------------------------
\* Claim about a stuck channel, checked under StuckSpec
\* ------------------------------------------------------------------------

\* the stuck channel
C_Stuck == CHOOSE c \in Channels : raw = StuckSample(c)

\* the tick on which the stuck channel saturates
C_SaturationTick == SaturationTicks

\* the pan has been parked at home and stopped, the channel still stuck
C_ParkedAtHome ==
    /\ ticks >= C_SaturationTick
    /\ monitor.state = "PARKED"
    /\ C_Called("pan.parkHome")
    /\ panRet
    /\ pan.speed = 0

\* an iteration of loop() made at rest changes the clock, the filter
\* indices and the saturated channel's lowRunMs, and the counters kept
\* here; this is what StuckIdle sums up
C_RestStep ==
    [][(StuckAtRest /\ ticks' = ticks + 1) =>
          /\ UNCHANGED <<panVars, monitor, monIn, monPre, reading, raw,
                         window, rawRun, satPre, direction, config, phase,
                         tiltVars,
                         trkVars, sweepDirectionCW, calls, panPre, resetPre,
                         trueDeg, beacon>>
          /\ now' = U32Add(now, U32(LOOP_PERIOD_MS))
          /\ monCalls' = monCalls + 1
          /\ ledCall' =
                 [ledCall EXCEPT !.calls = @ + 1,
                                 !.sinceBlink = U32Add(@, U32(LOOP_PERIOD_MS)),
                                 !.sinceChange = U32Add(@, U32(LOOP_PERIOD_MS))]
          /\ \A i \in Channels :
                 filters'[i] =
                     [filters[i] EXCEPT
                          !.index = (@ + 1) % config.window,
                          !.lowRunMs = IF raw[i]
                                       THEN (@ + LOOP_PERIOD_MS) % Half
                                       ELSE 0]]_vars

\* the part of C37 up to the first parking: the stuck channel reads ACTIVE
\* exactly from the 6th to the 99th tick, the monitor input is false from
\* the tick the channel saturates, and the monitor reaches SEARCHING and
\* then PARKED and the pan is stopped at home
C_StuckChannelParksOnce ==
    /\ [](ticks > 0 =>
            /\ (C_Channel(reading, C_Stuck) = "ACTIVE")
                   <=> (ticks >= SENSOR_FILTER_THRESHOLD
                            /\ ticks < C_SaturationTick)
            /\ ticks >= C_SaturationTick
                   => (C_Channel(reading, C_Stuck) = "SATURATED" /\ ~monIn))
    /\ <>(monitor.state = "SEARCHING")
    /\ (monitor.state = "SEARCHING") ~> C_ParkedAtHome

\* C37: a raw channel stuck active on every tick, the other three inactive,
\* does not keep the turret tracking: the channel reads ACTIVE only from
\* the 6th to the 99th tick, the monitor input is false from the tick the
\* channel saturates, and under continued ticking the monitor reaches
\* SEARCHING and then PARKED, and the pan command becomes 0 and stays 0.
C37_StuckChannelParks ==
    /\ C_StuckChannelParksOnce
    /\ [][C_ParkedAtHome => pan'.speed = 0]_vars

\* C37 fails here: the pan had been parked at home with the channel
\* saturated, the time since the last detection has gone around 2^32 ms,
\* and the monitor is SEARCHING again and the pan sweeps
C37_Witness ==
    /\ ticks > MaxStuckTicks \div 2
    /\ C_Channel(reading, C_Stuck) = "SATURATED"
    /\ ~monIn
    /\ monPre.state = "PARKED"
    /\ monitor.state = "SEARCHING"
    /\ Abs(pan.speed) = SEARCH_SWEEP_SPEED

\* ------------------------------------------------------------------------
\* Claim about leaving saturation, checked under SensorSpec
\* ------------------------------------------------------------------------

\* C38: on the tick a SATURATED channel receives its first inactive raw
\* sample, getFiltered() reports the channel ACTIVE, the window still
\* holding 7 active samples of 8, and the saturation run starts from zero:
\* if the raw input returns to active, the channel stays ACTIVE until
\* SENSOR_SATURATED_MS of active samples have been counted again.
C38_LeavingSaturation ==
    \A i \in Channels :
        /\ (satPre[i] /\ ~raw[i])
               => /\ C_Channel(reading, i) = "ACTIVE"
                  /\ ~filters[i].saturated
                  /\ filters[i].lowRunMs = 0
                  /\ C_CountActive(window[i]) = SENSOR_FILTER_WINDOW - 1
        /\ (raw[i] /\ rawRun[i] < SaturationTicks
                /\ C_CountActive(window[i]) >= SENSOR_FILTER_WINDOW - 1)
               => /\ C_Channel(reading, i) = "ACTIVE"
                  /\ filters[i].lowRunMs = rawRun[i] * LOOP_PERIOD_MS

\* C38 happens: the top channel was saturated and got an inactive sample,
\* and reads ACTIVE
C38_Witness ==
    /\ satPre[0] /\ ~raw[0]
    /\ C_Channel(reading, 0) = "ACTIVE"
    /\ ~filters[0].saturated

\* ticks between two accepted steps when a step is requested in every tick
C_TicksPerStep == TILT_HOLDOFF_MS \div LOOP_PERIOD_MS

\* C39: with a nudge requested on every tick, LOOP_PERIOD_MS apart, and no
\* setAngle, the accepted steps are exactly TILT_HOLDOFF_MS apart, on every
\* 5th tick: a rejected nudge leaves the time stamp alone and does not
\* postpone the next acceptance, and the angle changes by at most
\* TILT_STEP_DEG per TILT_HOLDOFF_MS.
C39_StepsEveryHoldoff ==
    ticks > 0 =>
        /\ tiltOp = "nudge" /\ tiltCalls = ticks
        /\ tiltRet <=> ticks % C_TicksPerStep = 0
        /\ tilt.lastStepMs
               = U32(TILT_HOLDOFF_MS * (ticks \div C_TicksPerStep))
        /\ ~tiltRet => tilt = tiltPre
        /\ tiltRet => /\ U32Sub(now, tiltPre.lastStepMs) = U32(TILT_HOLDOFF_MS)
                      /\ Abs(tilt.angle - tiltPre.angle) <= TILT_STEP_DEG
        /\ Abs(tilt.angle - TILT_HOME_DEG)
               <= TILT_STEP_DEG * (ticks \div C_TicksPerStep)

\* C39 happens: the third accepted step, on the 15th tick, after four
\* rejected requests
C39_Witness ==
    /\ ticks = 3 * C_TicksPerStep
    /\ tiltRet
    /\ tilt.angle = TILT_HOME_DEG + 3 * TILT_STEP_DEG
    /\ tilt.lastStepMs = now

\* the last call was a nudge at or after the holdoff whose step led out of
\* the range
C_ClampedNudge ==
    /\ tiltOp = "nudge"
    /\ ~U32Less(U32Sub(now, tiltPre.lastStepMs), TILT_HOLDOFF_MS)
    /\ \/ tiltPre.angle = TILT_MAX_DEG /\ tiltArg > 0
       \/ tiltPre.angle = TILT_MIN_DEG /\ tiltArg < 0

\* C40: a nudge made at or after the holdoff whose result is clamped at an
\* edge of the range is accepted: it returns true, leaves the angle as it
\* was and records the time, so that a nudge that follows within
\* TILT_HOLDOFF_MS, in whatever direction, is rejected.
C40_ClampedNudgeAccepted ==
    /\ [](C_ClampedNudge => /\ tiltRet
                           /\ tilt.angle = tiltPre.angle
                           /\ tilt.lastStepMs = now)
    /\ [][(C_ClampedNudge /\ tiltOp' = "nudge" /\ tiltCalls' = tiltCalls + 1
              /\ U32Less(U32Sub(now', now), TILT_HOLDOFF_MS))
             => (~tiltRet' /\ tilt' = tilt)]_vars

\* C40 happens: nudge(+1) at TILT_MAX_DEG, TILT_HOLDOFF_MS or more after
\* the last step, returns true and records the time
C40_Witness ==
    /\ C_ClampedNudge
    /\ tiltArg = 1
    /\ tiltPre.angle = TILT_MAX_DEG
    /\ tiltRet
    /\ tilt.angle = TILT_MAX_DEG
    /\ tilt.lastStepMs = now /\ tiltPre.lastStepMs # now

====
